---- MODULE Spec2Model ----
(***************************************************************************)
(* Model of the Dhanista support-chat backend (backend/routes/chat.js,     *)
(* backend/models/FAQ.js): the FAQ relevance scorer, history trimming,     *)
(* reply extraction, and the three request handlers POST /chat,            *)
(* POST /faqs and POST /upload-file-faq running against the FAQ and        *)
(* conversation stores.                                                    *)
(*                                                                         *)
(* A JavaScript string is a sequence of one-character strings.             *)
(***************************************************************************)
EXTENDS Integers, Sequences, FiniteSets, TLC

\* ------------------------------------------------------------------ bounds
\* longest query of the scorer's input space, in vocabulary tokens
MaxQueryTokens == 2
\* longest FAQ corpus of the scorer's input space
MaxCorpus == 4

\* ----------------------------------------------------------- JS strings
LowerLetters == <<"a", "b", "c", "d", "e", "f", "g", "h", "i", "j", "k", "l", "m", "n", "o", "p", "q", "r", "s", "t", "u", "v", "w", "x", "y", "z">>
UpperLetters == <<"A", "B", "C", "D", "E", "F", "G", "H", "I", "J", "K", "L", "M", "N", "O", "P", "Q", "R", "S", "T", "U", "V", "W", "X", "Y", "Z">>
Digits == <<"0", "1", "2", "3", "4", "5", "6", "7", "8", "9">>

Range(s) == {s[i] : i \in 1..Len(s)}

\* the characters the class \s matches, among those the model uses
Whitespace == {" ", "\n", "\t"}

\* String.prototype.toLowerCase on one character
LowerOfUpper ==
    [c \in Range(UpperLetters) |->
        LowerLetters[CHOOSE i \in 1..Len(UpperLetters) : UpperLetters[i] = c]]

LowerChar(c) == IF c \in DOMAIN LowerOfUpper THEN LowerOfUpper[c] ELSE c

toLowerCase(s) == [i \in 1..Len(s) |-> LowerChar(s[i])]

\* the character class [a-z0-9\s], whose complement normalizeText strips
KeptChars == Range(LowerLetters) \cup Range(Digits) \cup Whitespace

KeptChar(c) == c \in KeptChars

RECURSIVE trimStart(_)
trimStart(s) ==
    IF s # <<>> /\ Head(s) \in Whitespace THEN trimStart(Tail(s)) ELSE s

RECURSIVE trimEnd(_)
trimEnd(s) ==
    IF s # <<>> /\ s[Len(s)] \in Whitespace
    THEN trimEnd(SubSeq(s, 1, Len(s) - 1))
    ELSE s

\* String.prototype.trim
trim(s) == trimEnd(trimStart(s))

\* String.prototype.includes
includes(s, sub) ==
    \E i \in 0..(Len(s) - Len(sub)) : SubSeq(s, i + 1, i + Len(sub)) = sub

\* String.prototype.startsWith
startsWith(s, prefix) ==
    Len(prefix) <= Len(s) /\ SubSeq(s, 1, Len(prefix)) = prefix

\* s.split(/\s+/): the pieces between the maximal runs of whitespace; a
\* string with no whitespace (the empty string too) is a single piece.
RECURSIVE splitFrom(_, _)
splitFrom(s, piece) ==
    IF s = <<>> THEN <<piece>>
    ELSE IF Head(s) \in Whitespace
         THEN <<piece>> \o splitFrom(trimStart(s), <<>>)
         ELSE splitFrom(Tail(s), Append(piece, Head(s)))

splitWhitespace(s) == splitFrom(s, <<>>)

RECURSIVE join(_, _)
join(parts, sep) ==
    IF parts = <<>> THEN <<>>
    ELSE IF Len(parts) = 1 THEN parts[1]
    ELSE parts[1] \o sep \o join(Tail(parts), sep)

RECURSIVE concatAll(_)
concatAll(parts) ==
    IF parts = <<>> THEN <<>> ELSE Head(parts) \o concatAll(Tail(parts))

Min(a, b) == IF a <= b THEN a ELSE b
Max(a, b) == IF a >= b THEN a ELSE b

\* Array.prototype.slice(0, n)
sliceFirst(s, n) == SubSeq(s, 1, Min(n, Len(s)))

\* Array.prototype.slice(-n)
sliceLast(s, n) == SubSeq(s, Max(1, Len(s) - n + 1), Len(s))

\* -------------------------------------------------------- relevance scorer
\* minScore = 0.3, in tenths (scores are integers)
minScoreTenths == 3

normalizeText(text) == trim(SelectSeq(toLowerCase(text), KeptChar))

\* a word filter that keeps the words of two characters too (not the
\* code's)
queryWordsOfLongerThanOne(query) ==
    SelectSeq(splitWhitespace(normalizeText(query)), LAMBDA word : Len(word) > 1)

queryWordsOf(query) ==
    SelectSeq(splitWhitespace(normalizeText(query)), LAMBDA word : Len(word) > 2)

\* a word score that counts a word of the title in the content too (not
\* the code's)
RECURSIVE wordScoreBoth(_, _, _)
wordScoreBoth(words, normalizedTitle, normalizedContent) ==
    IF words = <<>> THEN 0
    ELSE (IF includes(normalizedTitle, Head(words)) THEN 2 ELSE 0)
         + (IF includes(normalizedContent, Head(words)) THEN 1 ELSE 0)
         + wordScoreBoth(Tail(words), normalizedTitle, normalizedContent)

\* the forEach over queryWords: +2 for a word of the title, else +1 for a
\* word of the content
RECURSIVE wordScore(_, _, _)
wordScore(words, normalizedTitle, normalizedContent) ==
    IF words = <<>> THEN 0
    ELSE (IF includes(normalizedTitle, Head(words)) THEN 2
          ELSE IF includes(normalizedContent, Head(words)) THEN 1
          ELSE 0)
         + wordScore(Tail(words), normalizedTitle, normalizedContent)

\* a score whose whole-query bonuses do not ask for a query longer than 5
\* characters (not the code's)
scoreNoLengthGuard(query, faq) ==
    LET normalizedQuery == normalizeText(query)
        normalizedTitle == normalizeText(faq.title)
        normalizedContent == normalizeText(faq.content)
    IN  wordScore(queryWordsOf(query), normalizedTitle, normalizedContent)
        + (IF includes(normalizedTitle, normalizedQuery) THEN 5 ELSE 0)
        + (IF includes(normalizedContent, normalizedQuery) THEN 2 ELSE 0)
        + (IF includes(toLowerCase(faq.title), toLowerCase(query)) THEN 3 ELSE 0)
        + (IF includes(toLowerCase(faq.content), toLowerCase(query)) THEN 1 ELSE 0)

\* the score the map callback computes for one FAQ
score(query, faq) ==
    LET normalizedQuery == normalizeText(query)
        normalizedTitle == normalizeText(faq.title)
        normalizedContent == normalizeText(faq.content)
    IN  wordScore(queryWordsOf(query), normalizedTitle, normalizedContent)
        + (IF includes(normalizedTitle, normalizedQuery) /\ Len(normalizedQuery) > 5
           THEN 5 ELSE 0)
        + (IF includes(normalizedContent, normalizedQuery) /\ Len(normalizedQuery) > 5
           THEN 2 ELSE 0)
        + (IF includes(toLowerCase(faq.title), toLowerCase(query)) THEN 3 ELSE 0)
        + (IF includes(toLowerCase(faq.content), toLowerCase(query)) THEN 1 ELSE 0)

scoredFaqs(query, faqs) ==
    [i \in 1..Len(faqs) |-> [faq |-> faqs[i], score |-> score(query, faqs[i])]]

\* the comparator (a, b) => b.score - a.score places a before b unless it
\* is positive
RECURSIVE insertByScore(_, _)
insertByScore(item, sorted) ==
    IF sorted = <<>> THEN <<item>>
    ELSE IF Head(sorted).score - item.score > 0
         THEN <<Head(sorted)>> \o insertByScore(item, Tail(sorted))
         ELSE <<item>> \o sorted

\* a sort by the comparator a.score - b.score, ascending (not the code's)
RECURSIVE sortByScoreAscending(_)
sortByScoreAscending(items) ==
    IF items = <<>> THEN <<>>
    ELSE LET rest == sortByScoreAscending(Tail(items))
             before == SelectSeq(rest, LAMBDA x : x.score < Head(items).score)
             after == SelectSeq(rest, LAMBDA x : x.score >= Head(items).score)
         IN  before \o <<Head(items)>> \o after

\* an insertion that places an item behind the items of its own score
RECURSIVE insertBehindTies(_, _)
insertBehindTies(item, sorted) ==
    IF sorted = <<>> THEN <<item>>
    ELSE IF Head(sorted).score - item.score >= 0
         THEN <<Head(sorted)>> \o insertBehindTies(item, Tail(sorted))
         ELSE <<item>> \o sorted

\* a sort that reverses the corpus order of equal scores (not the code's)
RECURSIVE sortByScoreTiesReversed(_)
sortByScoreTiesReversed(items) ==
    IF items = <<>> THEN <<>>
    ELSE insertBehindTies(Head(items), sortByScoreTiesReversed(Tail(items)))

\* Array.prototype.sort with that comparator (a stable sort)
RECURSIVE sortByScore(_)
sortByScore(items) ==
    IF items = <<>> THEN <<>>
    ELSE insertByScore(Head(items), sortByScore(Tail(items)))

findRelevantFaqsMin(query, faqs, minTenths) ==
    LET kept == SelectSeq(scoredFaqs(query, faqs),
                          LAMBDA item : item.score * 10 >= minTenths)
        ordered == sortByScore(kept)
        relevantFaqs == [i \in 1..Len(ordered) |-> ordered[i].faq]
    IN  sliceFirst(relevantFaqs, 3)

\* a scorer whose threshold filter keeps every entry (not the code's)
findRelevantFaqsNoThreshold(query, faqs) == findRelevantFaqsMin(query, faqs, 0)

findRelevantFaqs(query, faqs) == findRelevantFaqsMin(query, faqs, minScoreTenths)


\* --------------------------------------------- the scorer's input space
QueryRefundPolicy == <<"w", "h", "a", "t", " ", "i", "s", " ", "y", "o", "u", "r", " ", "r", "e", "f", "u", "n", "d", " ", "p", "o", "l", "i", "c", "y">>
QueryUnrelated == <<"x", "y", "z", " ", "q", "u", "x">>

RefundFaq == [title |-> <<"R", "e", "f", "u", "n", "d", " ", "P", "o", "l", "i", "c", "y">>, content |-> <<"W", "e", " ", "r", "e", "f", "u", "n", "d", " ", "w", "i", "t", "h", "i", "n", " ", "3", "0", " ", "d", "a", "y", "s">>]
ShippingFaq == [title |-> <<"S", "h", "i", "p", "p", "i", "n", "g">>, content |-> <<"S", "h", "i", "p", "s", " ", "w", "i", "t", "h", "i", "n", " ", "3", "0", " ", "d", "a", "y", "s">>]
PolicyFaq == [title |-> <<"P", "o", "l", "i", "c", "y", "?">>, content |-> <<"O", "u", "r", " ", "r", "e", "f", "u", "n", "d", " ", "p", "o", "l", "i", "c", "y">>]

FaqPool == {RefundFaq, ShippingFaq, PolicyFaq}

Tokens == {<<"r", "e", "f", "u", "n", "d", " ">>, <<"P", "o", "l", "i", "c", "y", "?">>, <<"3", "0", " ">>, <<"o", "u", "r", " ">>}

SeqsUpTo(S, n) == UNION {[1..k -> S] : k \in 0..n}

Queries ==
    {concatAll(ts) : ts \in SeqsUpTo(Tokens, MaxQueryTokens)}
        \cup {QueryRefundPolicy, QueryUnrelated}

Corpora == SeqsUpTo(FaqPool, MaxCorpus)

\* ------------------------------------------------------ history trimming
\* longest stored history of the trimming input space
MaxHistory == 7

\* a trimming that always keeps the last 5 turns (not the code's)
trimHistoryLastFive(messages) ==
    sliceLast(SelectSeq(messages, LAMBDA m : m.sender \in {"user", "ai"}), 5)

\* lines 96-101: keep the user/ai turns, then the last 6 when the last of
\* them is a user turn, the last 5 otherwise
trimHistory(messages) ==
    LET currentChatHistory ==
            SelectSeq(messages, LAMBDA m : m.sender \in {"user", "ai"})
    IN  IF Len(currentChatHistory) > 0
           /\ currentChatHistory[Len(currentChatHistory)].sender = "user"
        THEN sliceLast(currentChatHistory, 6)
        ELSE sliceLast(currentChatHistory, 5)

\* a mapping that sends the sender on as the role (not the code's)
toChatHistorySenderAsRole(kept) ==
    [i \in 1..Len(kept) |-> [role |-> kept[i].sender, text |-> kept[i].content]]

\* lines 103-106: the role-tagged messages sent upstream
toChatHistory(kept) ==
    [i \in 1..Len(kept) |->
        [role |-> IF kept[i].sender = "user" THEN "user" ELSE "model",
         text |-> kept[i].content]]

\* stored histories: any senders, the i-th turn carrying the digit i
Senders == {"user", "ai", "system"}

Histories ==
    {[i \in 1..Len(ss) |-> [sender |-> ss[i], content |-> <<Digits[(i % 10) + 1]>>]] :
        ss \in SeqsUpTo(Senders, MaxHistory)}


\* ------------------------------------------------------------ JS values
\* A value whose shape the code tests: undefined, null, a string, an object
\* (a record with a tag t and its properties) or an array.
Undefined == [t |-> "undefined"]
Null == [t |-> "null"]
Str(s) == [t |-> "string", v |-> s]
Arr(items) == [t |-> "array", items |-> items]

\* the truthiness test of if (x), !x, x && y
truthy(x) ==
    CASE x.t \in {"undefined", "null"} -> FALSE
      [] x.t = "string" -> x.v # <<>>
      [] OTHER -> TRUE

\* x.name throws a TypeError
throwsOnProperty(x) == x.t \in {"undefined", "null"}

\* x.name where it does not throw: undefined for a property x has not
get(x, name) ==
    IF x.t = "object" /\ name \in DOMAIN x THEN x[name] ELSE Undefined

\* ----------------------------------------------------- the fixed strings
\* line 76
MsgRequired == <<"U", "s", "e", "r", " ", "I", "D", " ", "a", "n", "d", " ", "m", "e", "s", "s", "a", "g", "e", " ", "a", "r", "e", " ", "r", "e", "q", "u", "i", "r", "e", "d", ".">>
\* line 163
ReplyUnclear == <<"I", " ", "r", "e", "c", "e", "i", "v", "e", "d", " ", "a", "n", " ", "e", "m", "p", "t", "y", " ", "o", "r", " ", "u", "n", "c", "l", "e", "a", "r", " ", "r", "e", "s", "p", "o", "n", "s", "e", " ", "f", "r", "o", "m", " ", "t", "h", "e", " ", "A", "I", ".", " ", "P", "l", "e", "a", "s", "e", " ", "t", "r", "y", " ", "a", "g", "a", "i", "n", " ", "o", "r", " ", "a", "s", "k", " ", "y", "o", "u", "r", " ", "q", "u", "e", "s", "t", "i", "o", "n", " ", "i", "n", " ", "a", " ", "d", "i", "f", "f", "e", "r", "e", "n", "t", " ", "w", "a", "y", ".">>
\* line 178
ErrUnexpected == <<"A", "n", " ", "u", "n", "e", "x", "p", "e", "c", "t", "e", "d", " ", "e", "r", "r", "o", "r", " ", "o", "c", "c", "u", "r", "r", "e", "d", ".", " ", "P", "l", "e", "a", "s", "e", " ", "t", "r", "y", " ", "a", "g", "a", "i", "n", " ", "l", "a", "t", "e", "r", " ", "o", "r", " ", "c", "o", "n", "t", "a", "c", "t", " ", "s", "u", "p", "p", "o", "r", "t", " ", "i", "f", " ", "t", "h", "e", " ", "i", "s", "s", "u", "e", " ", "p", "e", "r", "s", "i", "s", "t", "s", ".">>
\* line 182
ErrSafety == <<"I", " ", "c", "a", "n", "n", "o", "t", " ", "a", "n", "s", "w", "e", "r", " ", "t", "h", "a", "t", " ", "q", "u", "e", "s", "t", "i", "o", "n", " ", "a", "s", " ", "i", "t", " ", "v", "i", "o", "l", "a", "t", "e", "s", " ", "m", "y", " ", "s", "a", "f", "e", "t", "y", " ", "g", "u", "i", "d", "e", "l", "i", "n", "e", "s", ".", " ", "P", "l", "e", "a", "s", "e", " ", "r", "e", "p", "h", "r", "a", "s", "e", " ", "y", "o", "u", "r", " ", "q", "u", "e", "r", "y", ".">>
\* line 184
ErrBadRequest == <<"T", "h", "e", "r", "e", " ", "w", "a", "s", " ", "a", "n", " ", "i", "s", "s", "u", "e", " ", "w", "i", "t", "h", " ", "y", "o", "u", "r", " ", "r", "e", "q", "u", "e", "s", "t", ".", " ", "T", "h", "i", "s", " ", "m", "i", "g", "h", "t", " ", "b", "e", " ", "d", "u", "e", " ", "t", "o", " ", "a", "n", " ", "i", "n", "v", "a", "l", "i", "d", " ", "i", "n", "p", "u", "t", " ", "o", "r", " ", "A", "P", "I", " ", "p", "r", "o", "b", "l", "e", "m", ".", " ", "P", "l", "e", "a", "s", "e", " ", "t", "r", "y", " ", "a", "g", "a", "i", "n", ".">>
\* line 186
ErrAuth == <<"A", "u", "t", "h", "e", "n", "t", "i", "c", "a", "t", "i", "o", "n", " ", "f", "a", "i", "l", "e", "d", " ", "w", "i", "t", "h", " ", "t", "h", "e", " ", "A", "I", " ", "s", "e", "r", "v", "i", "c", "e", ".", " ", "P", "l", "e", "a", "s", "e", " ", "c", "h", "e", "c", "k", " ", "t", "h", "e", " ", "A", "P", "I", " ", "k", "e", "y", " ", "c", "o", "n", "f", "i", "g", "u", "r", "a", "t", "i", "o", "n", " ", "o", "n", " ", "t", "h", "e", " ", "s", "e", "r", "v", "e", "r", ".">>
\* line 188
ErrInternal == <<"T", "h", "e", " ", "A", "I", " ", "s", "e", "r", "v", "i", "c", "e", " ", "e", "n", "c", "o", "u", "n", "t", "e", "r", "e", "d", " ", "a", "n", " ", "i", "n", "t", "e", "r", "n", "a", "l", " ", "e", "r", "r", "o", "r", ".", " ", "P", "l", "e", "a", "s", "e", " ", "t", "r", "y", " ", "a", "g", "a", "i", "n", " ", "i", "n", " ", "a", " ", "f", "e", "w", " ", "m", "o", "m", "e", "n", "t", "s", ".">>
\* line 193
ErrConnect == <<"I", "'", "m", " ", "h", "a", "v", "i", "n", "g", " ", "t", "r", "o", "u", "b", "l", "e", " ", "c", "o", "n", "n", "e", "c", "t", "i", "n", "g", " ", "t", "o", " ", "t", "h", "e", " ", "A", "I", " ", "s", "e", "r", "v", "i", "c", "e", ".", " ", "P", "l", "e", "a", "s", "e", " ", "c", "h", "e", "c", "k", " ", "y", "o", "u", "r", " ", "n", "e", "t", "w", "o", "r", "k", " ", "c", "o", "n", "n", "e", "c", "t", "i", "o", "n", " ", "o", "r", " ", "t", "r", "y", " ", "a", "g", "a", "i", "n", " ", "l", "a", "t", "e", "r", ".">>
\* line 195
ErrApiKey == <<"T", "h", "e", "r", "e", "'", "s", " ", "a", "n", " ", "i", "s", "s", "u", "e", " ", "w", "i", "t", "h", " ", "t", "h", "e", " ", "A", "P", "I", " ", "k", "e", "y", ".", " ", "P", "l", "e", "a", "s", "e", " ", "e", "n", "s", "u", "r", "e", " ", "i", "t", "'", "s", " ", "c", "o", "r", "r", "e", "c", "t", "l", "y", " ", "c", "o", "n", "f", "i", "g", "u", "r", "e", "d", " ", "o", "n", " ", "t", "h", "e", " ", "s", "e", "r", "v", "e", "r", ".">>

\* String(n) of a non-negative integer
RECURSIVE toDecimal(_)
toDecimal(n) ==
    IF n < 10 THEN <<Digits[n + 1]>>
    ELSE toDecimal(n \div 10) \o <<Digits[(n % 10) + 1]>>

\* line 190
ErrStatus(status) ==
    <<"I", "'", "m", " ", "e", "n", "c", "o", "u", "n", "t", "e", "r", "i", "n", "g", " ", "a", " ", "p", "r", "o", "b", "l", "e", "m", " ", "p", "r", "o", "c", "e", "s", "s", "i", "n", "g", " ", "y", "o", "u", "r", " ", "r", "e", "q", "u", "e", "s", "t", " ", "(", "S", "t", "a", "t", "u", "s", ":", " ">>
        \o toDecimal(status) \o <<")", ".", " ", "P", "l", "e", "a", "s", "e", " ", "t", "r", "y", " ", "a", "g", "a", "i", "n", ".">>

\* --------------------------------------------------- reply extraction
\* lines 156-164: the text of the first part of the first candidate, or
\* the fixed string; reading a property of a null candidate throws.
extractReply(response) ==
    LET data == response.data
        candidates == get(data, "candidates")
        first == candidates.items[1]
        content == get(first, "content")
        parts == get(content, "parts")
    IN  IF ~(truthy(data) /\ truthy(candidates) /\ candidates.t = "array"
             /\ Len(candidates.items) > 0)
        THEN [threw |-> FALSE, reply |-> Str(ReplyUnclear)]
        ELSE IF throwsOnProperty(first)
        THEN [threw |-> TRUE, reply |-> Undefined]
        ELSE IF truthy(content) /\ truthy(parts) /\ parts.t = "array"
                /\ Len(parts.items) > 0
        THEN IF throwsOnProperty(parts.items[1])
             THEN [threw |-> TRUE, reply |-> Undefined]
             ELSE [threw |-> FALSE, reply |-> get(parts.items[1], "text")]
        ELSE [threw |-> FALSE, reply |-> Str(ReplyUnclear)]

\* upstream responses of every shape the extraction distinguishes
Part(text) == [t |-> "object", text |-> text]
PartsOf(parts) == [t |-> "object", parts |-> parts]
Candidate(content) == [t |-> "object", content |-> content]
CandidatesOf(candidates) == [t |-> "object", candidates |-> candidates]
EmptyObject == [t |-> "object"]

ReplyText == <<"R", "e", "f", "u", "n", "d", "s", " ", "t", "a", "k", "e", " ", "3", "0", " ", "d", "a", "y", "s", ".">>

ResponseData ==
    { Undefined,
      EmptyObject,
      CandidatesOf(Arr(<<>>)),
      CandidatesOf(Arr(<<Null>>)),
      CandidatesOf(Arr(<<EmptyObject>>)),
      CandidatesOf(Arr(<<Candidate(EmptyObject)>>)),
      CandidatesOf(Arr(<<Candidate(PartsOf(Arr(<<>>)))>>)),
      CandidatesOf(Arr(<<Candidate(PartsOf(Arr(<<EmptyObject>>)))>>)),
      CandidatesOf(Arr(<<Candidate(PartsOf(Arr(<<Part(Str(<<>>))>>)))>>)),
      CandidatesOf(Arr(<<Candidate(PartsOf(Arr(<<Part(Str(ReplyText))>>)))>>)) }

UpstreamResponses == {[data |-> d] : d \in ResponseData}

\* ------------------------------------------------------- thrown errors
\* what the catch block reads of an error: response (axios, when the
\* service answered), code (a network failure) and message
HttpError(status, data) ==
    [response |-> [t |-> "object", status |-> status, data |-> data],
     code |-> "", message |-> <<"R", "e", "q", "u", "e", "s", "t", " ", "f", "a", "i", "l", "e", "d">>]
PlainError(code, message) ==
    [response |-> Undefined, code |-> code, message |-> message]

ErrorBody(message) == [t |-> "object", error |-> [t |-> "object", message |-> message]]

\* bodies of an upstream 400
BadRequestData ==
    { Null,
      Str(<<>>),
      EmptyObject,
      [t |-> "object", error |-> EmptyObject],
      [t |-> "object", error |-> Str(<<"b", "l", "o", "c", "k", "e", "d">>)],
      ErrorBody(Str(<<"b", "l", "o", "c", "k", "e", "d", " ", "f", "o", "r", " ", "s", "a", "f", "e", "t", "y">>)),
      ErrorBody(Str(<<"i", "n", "v", "a", "l", "i", "d", " ", "a", "r", "g", "u", "m", "e", "n", "t">>)) }

UpstreamErrors ==
    {HttpError(400, d) : d \in BadRequestData}
        \cup {HttpError(s, Null) : s \in {401, 403, 500, 503}}
        \cup {PlainError(c, <<"c", "o", "n", "n", "e", "c", "t", " ", "f", "a", "i", "l", "e", "d">>) : c \in {"ECONNREFUSED", "ENOTFOUND", "ETIMEDOUT"}}
        \cup {PlainError("", <<"A", "P", "I", " ", "k", "e", "y", " ", "n", "o", "t", " ", "v", "a", "l", "i", "d", ".">>)}

StoreError == PlainError("", <<"s", "t", "o", "r", "e", " ", "u", "n", "a", "v", "a", "i", "l", "a", "b", "l", "e">>)
ValidationError == PlainError("", <<"v", "a", "l", "i", "d", "a", "t", "i", "o", "n", " ", "f", "a", "i", "l", "e", "d">>)
DuplicateKeyError == PlainError("", <<"E", "1", "1", "0", "0", "0", " ", "d", "u", "p", "l", "i", "c", "a", "t", "e", " ", "k", "e", "y", " ", "e", "r", "r", "o", "r">>)
TypeError == PlainError("", <<"C", "a", "n", "n", "o", "t", " ", "r", "e", "a", "d", " ", "p", "r", "o", "p", "e", "r", "t", "i", "e", "s", " ", "o", "f", " ", "n", "u", "l", "l">>)

\* lines 176-200: the reply of the 500 response, or a TypeError thrown by
\* the condition of line 181 (data.error of a null body, message.includes
\* of an error without a message string)
catchChat(error) ==
    IF truthy(error.response)
    THEN LET status == error.response.status
             data == error.response.data
             err == get(data, "error")
             message == get(err, "message")
         IN  IF status = 400 /\ throwsOnProperty(data)
             THEN [threw |-> TRUE, userFacingError |-> <<>>]
             ELSE IF status = 400 /\ truthy(err) /\ message.t # "string"
             THEN [threw |-> TRUE, userFacingError |-> <<>>]
             ELSE [threw |-> FALSE,
                   userFacingError |->
                       IF status = 400 /\ truthy(err)
                          /\ includes(message.v, <<"s", "a", "f", "e", "t", "y">>)
                       THEN ErrSafety
                       ELSE IF status = 400 THEN ErrBadRequest
                       ELSE IF status = 401 \/ status = 403 THEN ErrAuth
                       ELSE IF status = 500 THEN ErrInternal
                       ELSE ErrStatus(status)]
    ELSE [threw |-> FALSE,
          userFacingError |->
              IF error.code = "ECONNREFUSED" \/ error.code = "ENOTFOUND"
              THEN ErrConnect
              ELSE IF includes(error.message, <<"A", "P", "I", " ", "k", "e", "y", " ", "n", "o", "t", " ", "v", "a", "l", "i", "d">>)
              THEN ErrApiKey
              ELSE ErrUnexpected]

\* ------------------------------------------------------- FAQ uploads
\* lines 213, 220, 223
MsgFaqRequired == <<"F", "A", "Q", " ", "t", "i", "t", "l", "e", " ", "a", "n", "d", " ", "c", "o", "n", "t", "e", "n", "t", " ", "a", "r", "e", " ", "r", "e", "q", "u", "i", "r", "e", "d", ".">>
MsgFaqUploaded == <<"T", "e", "x", "t", " ", "F", "A", "Q", " ", "u", "p", "l", "o", "a", "d", "e", "d", " ", "s", "u", "c", "c", "e", "s", "s", "f", "u", "l", "l", "y", "!">>
MsgFaqFailed == <<"F", "a", "i", "l", "e", "d", " ", "t", "o", " ", "u", "p", "l", "o", "a", "d", " ", "t", "e", "x", "t", " ", "F", "A", "Q", ".">>
\* lines 236, 265, 269
MsgFileRequired == <<"F", "A", "Q", " ", "t", "i", "t", "l", "e", " ", "a", "n", "d", " ", "f", "i", "l", "e", " ", "a", "r", "e", " ", "r", "e", "q", "u", "i", "r", "e", "d", ".">>
MsgFileUploaded == <<"F", "i", "l", "e", " ", "u", "p", "l", "o", "a", "d", "e", "d", " ", "a", "n", "d", " ", "p", "r", "o", "c", "e", "s", "s", "e", "d", " ", "s", "u", "c", "c", "e", "s", "s", "f", "u", "l", "l", "y", "!">>
MsgFileFailed == <<"F", "a", "i", "l", "e", "d", " ", "t", "o", " ", "p", "r", "o", "c", "e", "s", "s", " ", "f", "i", "l", "e", " ", "o", "r", " ", "u", "p", "l", "o", "a", "d", " ", "F", "A", "Q", ".">>

\* faqSchema: title and content are required strings; Mongoose's required
\* validator rejects a missing value and the empty string
faqValid(title, content) == truthy(title) /\ truthy(content)

\* the characters of code 32..126 in code order; the quote, the backslash,
\* the backtick and the characters outside ASCII are named by code point
AsciiPrintable == <<" ", "!", "U+0022", "#", "$", "%", "&", "'", "(", ")", "*", "+", ",", "-", ".", "/", "0", "1", "2", "3", "4", "5", "6", "7", "8", "9", ":", ";", "<", "=", ">", "?", "@", "A", "B", "C", "D", "E", "F", "G", "H", "I", "J", "K", "L", "M", "N", "O", "P", "Q", "R", "S", "T", "U", "V", "W", "X", "Y", "Z", "[", "U+005C", "]", "^", "_", "U+0060", "a", "b", "c", "d", "e", "f", "g", "h", "i", "j", "k", "l", "m", "n", "o", "p", "q", "r", "s", "t", "u", "v", "w", "x", "y", "z", "{", "|", "}", "~">>

CodeOfChar ==
    [c \in Range(AsciiPrintable) \cup {"\t", "\n", "U+00E9", "U+FEFF", "U+FFFD"} |->
        CASE c = "\t" -> 9
          [] c = "\n" -> 10
          [] c = "U+00E9" -> 233
          [] c = "U+FEFF" -> 65279
          [] c = "U+FFFD" -> 65533
          [] OTHER -> 31 + (CHOOSE i \in 1..Len(AsciiPrintable) : AsciiPrintable[i] = c)]

charOfCode(cp) ==
    IF \E c \in DOMAIN CodeOfChar : CodeOfChar[c] = cp
    THEN CHOOSE c \in DOMAIN CodeOfChar : CodeOfChar[c] = cp
    ELSE "U+FFFD"

\* the bytes of a text file whose text is s (UTF-8, as written by the
\* admin's machine)
RECURSIVE utf8Encode(_)
utf8Encode(s) ==
    IF s = <<>> THEN <<>>
    ELSE LET cp == CodeOfChar[Head(s)]
         IN  (IF cp < 128 THEN <<cp>>
              ELSE IF cp < 2048 THEN <<192 + (cp \div 64), 128 + (cp % 64)>>
              ELSE <<224 + (cp \div 4096), 128 + ((cp \div 64) % 64), 128 + (cp % 64)>>)
             \o utf8Encode(Tail(s))

isContinuation(b) == b >= 128 /\ b <= 191

\* buffer.toString('utf8'): every byte sequence decodes; a malformed byte
\* becomes U+FFFD; nothing is trimmed and a byte order mark is kept
RECURSIVE utf8Decode(_)
utf8Decode(bytes) ==
    IF bytes = <<>> THEN <<>>
    ELSE LET b == bytes[1]
             n == Len(bytes)
         IN  IF b < 128
             THEN <<charOfCode(b)>> \o utf8Decode(Tail(bytes))
             ELSE IF b >= 194 /\ b <= 223 /\ n >= 2 /\ isContinuation(bytes[2])
             THEN <<charOfCode((b - 192) * 64 + (bytes[2] - 128))>>
                      \o utf8Decode(SubSeq(bytes, 3, n))
             ELSE IF b >= 224 /\ b <= 239 /\ n >= 3
                     /\ isContinuation(bytes[2]) /\ isContinuation(bytes[3])
             THEN <<charOfCode((b - 224) * 4096 + (bytes[2] - 128) * 64 + (bytes[3] - 128))>>
                      \o utf8Decode(SubSeq(bytes, 4, n))
             ELSE <<"U+FFFD">> \o utf8Decode(Tail(bytes))

MimePdf == <<"a", "p", "p", "l", "i", "c", "a", "t", "i", "o", "n", "/", "p", "d", "f">>
MimeText == <<"t", "e", "x", "t", "/", "p", "l", "a", "i", "n">>
MimePng == <<"i", "m", "a", "g", "e", "/", "p", "n", "g">>

\* line 249
pdfFailurePlaceholder(message) ==
    <<"[", "F", "a", "i", "l", "e", "d", " ", "t", "o", " ", "e", "x", "t", "r", "a", "c", "t", " ", "t", "e", "x", "t", " ", "f", "r", "o", "m", " ", "P", "D", "F", ":", " ">> \o message \o <<"]">>

\* line 256
filePlaceholder(file) ==
    <<"[", "F", "i", "l", "e", " ", "u", "p", "l", "o", "a", "d", "e", "d", ":", " ">> \o file.originalname \o <<",", " ", "T", "y", "p", "e", ":", " ">> \o file.mimetype
        \o <<",", " ", "S", "i", "z", "e", ":", " ">> \o toDecimal(file.size) \o <<" ", "b", "y", "t", "e", "s", "]">>

\* req.file as multer's memory storage gives it; text is the text the file
\* was written from
FileOf(mimetype, originalname, text) ==
    [t |-> "object", mimetype |-> mimetype, originalname |-> originalname,
     buffer |-> utf8Encode(text), size |-> Len(utf8Encode(text)), text |-> text]

FileTexts == {<<>>, <<"H", "e", "l", "l", "o", " ", "w", "o", "r", "l", "d">>, <<"U+FEFF", " ", "h", "U+00E9", "\n">>}

PdfFile == FileOf(MimePdf, <<"a", ".", "p", "d", "f">>, <<"%", "P", "D", "F">>)
PngFile == FileOf(MimePng, <<"a", ".", "p", "n", "g">>, <<"P", "N", "G">>)
TextFiles == {FileOf(MimeText, <<"a", ".", "t", "x", "t">>, s) : s \in FileTexts}

\* the title and file of the upload requests the model sends
UploadTitle == Str(<<"R", "e", "f", "u", "n", "d", " ", "P", "o", "l", "i", "c", "y">>)
UploadBodies ==
    { [title |-> Undefined, file |-> PdfFile],
      [title |-> UploadTitle, file |-> Undefined] }
        \cup {[title |-> UploadTitle, file |-> f] : f \in {PdfFile, PngFile} \cup TextFiles}

\* what pdf-parse resolves with (data.text) or rejects with (its message)
PdfTexts == {<<>>, <<"R", "e", "f", "u", "n", "d", " ", "p", "o", "l", "i", "c", "y", ":", " ", "3", "0", " ", "d", "a", "y", "s">>}
PdfErrorMessage == <<"I", "n", "v", "a", "l", "i", "d", " ", "P", "D", "F", " ", "s", "t", "r", "u", "c", "t", "u", "r", "e">>

\* an extraction that trims the decoded text (not the code's)
extractContentTrimmed(file) ==
    IF startsWith(file.mimetype, <<"t", "e", "x", "t", "/">>)
    THEN trim(utf8Decode(file.buffer))
    ELSE filePlaceholder(file)

\* lines 251-257: the content of a file that is not a PDF
extractContent(file) ==
    IF startsWith(file.mimetype, <<"t", "e", "x", "t", "/">>)
    THEN utf8Decode(file.buffer)
    ELSE filePlaceholder(file)

\* ------------------------------------------------- the request handlers
\* requests received in one run
MaxRequests == 3
\* the handlers that run concurrently
ReqIds == {1, 2}

\* req.body of the requests the model sends: a field is missing
\* (undefined), empty, or present
UserOne == Str(<<"u", "1">>)
UserTwo == Str(<<"u", "2">>)
MessageText == Str(<<"r", "e", "f", "u", "n", "d", " ", "p", "o", "l", "i", "c", "y">>)
ChatBodies ==
    { [userId |-> Undefined, message |-> MessageText],
      [userId |-> UserOne, message |-> Str(<<>>)],
      [userId |-> UserOne, message |-> MessageText],
      [userId |-> UserTwo, message |-> MessageText] }

FaqTitle == Str(<<"R", "e", "f", "u", "n", "d", " ", "P", "o", "l", "i", "c", "y">>)
FaqContent == Str(<<"W", "e", " ", "r", "e", "f", "u", "n", "d", " ", "w", "i", "t", "h", "i", "n", " ", "3", "0", " ", "d", "a", "y", "s">>)
FaqBodies ==
    { [title |-> Undefined, content |-> FaqContent],
      [title |-> FaqTitle, content |-> Str(<<>>)],
      [title |-> FaqTitle, content |-> FaqContent] }

\* lines 113-121, the fixed instruction text cut to its first sentence
InstructionHead == <<"Y", "o", "u", " ", "a", "r", "e", " ", "D", "h", "a", "n", "i", "s", "t", "a", ",", " ", "a", " ", "h", "e", "l", "p", "f", "u", "l", " ", "a", "n", "d", " ", "k", "n", "o", "w", "l", "e", "d", "g", "e", "a", "b", "l", "e", " ", "A", "I", " ", "a", "s", "s", "i", "s", "t", "a", "n", "t", ".">>

\* line 87
faqContextOf(relevantFaqs) ==
    join([i \in 1..Len(relevantFaqs) |->
             <<"Q", ":", " ">> \o relevantFaqs[i].title \o <<"\n", "A", ":", " ">> \o relevantFaqs[i].content],
         <<"\n", "\n", "-", "-", "-", "\n", "\n">>)

\* lines 113-121
systemInstructionOf(relevantFaqs) ==
    InstructionHead \o
        (IF faqContextOf(relevantFaqs) # <<>>
         THEN <<"*", "*", "R", "e", "l", "e", "v", "a", "n", "t", " ", "F", "A", "Q", "s", ":", "*", "*", "\n">> \o faqContextOf(relevantFaqs) \o <<"\n", "\n">>
         ELSE <<>>)

\* lines 123-128: payload.contents
payloadContents(relevantFaqs, chatHistory, message) ==
    <<[role |-> "user", text |-> systemInstructionOf(relevantFaqs)]>>
        \o chatHistory
        \o <<[role |-> "user", text |-> message]>>

\* Chat.findOne({ userId }): the position of the user's record, 0 for null
findOne(store, userId) ==
    IF \E i \in 1..Len(store) : store[i].userId = userId
    THEN CHOOSE i \in 1..Len(store) :
             /\ store[i].userId = userId
             /\ \A j \in 1..(i - 1) : store[j].userId # userId
    ELSE 0

\* a validation that does not look at the message (not the code's)
chatInputValidUserOnly(userId, message) == truthy(userId)

\* line 74
chatInputValid(userId, message) == truthy(userId) /\ truthy(message)

\* messageSchema: sender and content are required strings
turnsValid(pushed) ==
    \A i \in 1..Len(pushed) : truthy(pushed[i].content)

\* a handler that pushes the user turn alone (not the code's)
pushedTurnsUserOnly(message, reply) ==
    <<[sender |-> "user", content |-> message]>>

\* lines 169-171: the turns save() writes. A found document is updated by
\* pushing the new turns onto the stored array (Mongoose sends both pushes
\* as one $push); a new document is inserted with them.
pushedTurns(message, reply) ==
    <<[sender |-> "user", content |-> message],
      [sender |-> "ai", content |-> reply]>>

storedTurns(pushed) ==
    [i \in 1..Len(pushed) |-> [sender |-> pushed[i].sender, content |-> pushed[i].content.v]]

\* a save that writes the whole document as the handler holds it, over
\* whatever the store holds by then (not what Mongoose does for a push)
applyChatSaveWholeDocument(store, doc, userId, pushed) ==
    IF doc.id = 0
    THEN Append(store, [userId |-> userId, messages |-> storedTurns(pushed)])
    ELSE [store EXCEPT ![doc.id].messages = doc.messages \o storedTurns(pushed)]

applyChatSave(store, doc, userId, pushed) ==
    IF doc.id = 0
    THEN Append(store, [userId |-> userId, messages |-> storedTurns(pushed)])
    ELSE [store EXCEPT ![doc.id].messages = @ \o storedTurns(pushed)]

\* a store without the unique index on userId (not the schema's)
chatSaveAcceptedNoIndex(store, doc, userId, pushed) == turnsValid(pushed)

\* chatSchema userId unique: inserting a second record of a user fails
chatSaveAccepted(store, doc, userId, pushed) ==
    /\ turnsValid(pushed)
    /\ doc.id = 0 => findOne(store, userId) = 0

\* ---------------------------------------------------------------- state
VARIABLES
    scQuery,     \* scorer harness: the query passed to findRelevantFaqs
    scCorpus,    \* scorer harness: the FAQ corpus passed to it
    scResult,    \* scorer harness: what it returned
    scPc,        \* scorer harness: "off", "call" or "done"
    trMessages,  \* trimming harness: chat.messages
    trKept,      \* trimming harness: currentChatHistory after the slice
    trPc,        \* trimming harness: "off", "call", "done" or "sent"
    trFaqs,      \* trimming harness: relevantFaqs
    trQuery,     \* trimming harness: message
    trPayload,   \* trimming harness: payload.contents
    faqStore,    \* the FAQ collection, in insertion order
    chatStore,   \* the Chat collection: records [userId, messages]
    req,         \* the handlers: each one's position, locals and response
    started,     \* requests received so far
    cbMessages,  \* App: messages, the list ChatBox shows
    cbInput,     \* ChatBox: input
    cbIsTyping,  \* ChatBox: isTyping
    cbPending,   \* ChatBox: the chat requests sent and not yet settled
    cbSettled,   \* ChatBox: how the request that settled last ended
    cbCalls,     \* ChatBox: calls of sendMessage so far
    showAdminPanel, \* App: showAdminPanel, AdminUpload is mounted
    auTitle,     \* AdminUpload: title
    auContent,   \* AdminUpload: content
    auFile,      \* AdminUpload: file
    auMessage,   \* AdminUpload: message
    auShowModal, \* AdminUpload: showModal
    auModalMessage, \* AdminUpload: modalMessage
    auPending,   \* AdminUpload: the upload requests sent and not yet settled
    auTimers,    \* AdminUpload: the setTimeout callbacks not yet run
    auSettled,   \* AdminUpload: how the request that settled last ended
    auCalls      \* AdminUpload: calls of upload so far

scorerVars == <<scQuery, scCorpus, scResult, scPc>>
trimVars == <<trMessages, trKept, trPc, trFaqs, trQuery, trPayload>>
serverVars == <<faqStore, chatStore, req, started>>
chatBoxVars == <<cbMessages, cbInput, cbIsTyping, cbPending, cbSettled, cbCalls>>
adminVars ==
    <<showAdminPanel, auTitle, auContent, auFile, auMessage, auShowModal,
      auModalMessage, auPending, auTimers, auSettled, auCalls>>
uiVars == <<chatBoxVars, adminVars>>
vars == <<scorerVars, trimVars, serverVars, uiVars>>

ScorerOff == scQuery = <<>> /\ scCorpus = <<>> /\ scResult = <<>> /\ scPc = "off"
TrimOff ==
    /\ trMessages = <<>> /\ trKept = <<>> /\ trPc = "off"
    /\ trFaqs = <<>> /\ trQuery = <<>> /\ trPayload = <<>>

\* A handler: the route (kind), the await it is at (pc), the fields of its
\* request, its locals (relevantFaqs, chat, payload, pushed, reply), the
\* response it sent (status, body, responses), and what it did: the store
\* operations and upstream calls it issued, the number of turns of the
\* record it read (seen), the await at which it failed (failure).
NoReq ==
    [kind |-> "none", pc |-> "idle",
     userId |-> Undefined, message |-> Undefined,
     title |-> Undefined, content |-> Undefined, file |-> Undefined,
     relevantFaqs |-> <<>>, chat |-> Null, seen |-> 0, payload |-> <<>>,
     pushed |-> <<>>,
     reply |-> Undefined,
     status |-> 0, body |-> EmptyObject,
     storeCalls |-> 0, llmCalls |-> 0, responses |-> 0, failure |-> "none"]

ServerInit ==
    /\ faqStore = <<>>
    /\ chatStore = <<>>
    /\ req = [r \in ReqIds |-> NoReq]
    /\ started = 0

\* what is left of a handler's locals once it has returned
Returned(q) ==
    [q EXCEPT !.relevantFaqs = <<>>, !.chat = Null, !.payload = <<>>, !.pushed = <<>>]

\* res.status(status).json(body)
Responded(q, status, body) ==
    Returned([q EXCEPT !.pc = "done", !.status = status, !.body = body,
                       !.responses = @ + 1])

\* a catch block that repeats a failed upstream call once before it
\* answers (not the code's)
CaughtRetrying(q, error, stage) ==
    LET again == IF stage = "upstream" THEN [q EXCEPT !.llmCalls = @ + 1] ELSE q
    IN  IF catchChat(error).threw
        THEN Returned([again EXCEPT !.pc = "escaped", !.failure = stage])
        ELSE Responded([again EXCEPT !.failure = stage], 500,
                       [reply |-> catchChat(error).userFacingError])

\* the catch block of POST /chat entered with error at the given await
Caught(q, error, stage) ==
    IF catchChat(error).threw
    THEN Returned([q EXCEPT !.pc = "escaped", !.failure = stage])
    ELSE Responded([q EXCEPT !.failure = stage], 500,
                   [reply |-> catchChat(error).userFacingError])

\* a handler that has returned (answered, or left by an escaped exception)
\* is seen as it ended before anything else happens
Ended(q) == q.pc \in {"done", "escaped"}
Quiet == \A r \in ReqIds : ~Ended(req[r])

\* the handlers in flight are kept in arrival order: a request is taken by
\* the first idle slot
Free(r) ==
    /\ Quiet
    /\ req[r].pc = "idle"
    /\ \A s \in ReqIds : s < r => req[s].pc # "idle"
At(r, pc) == Quiet /\ req[r].pc = pc

Ends(r, q) == req' = [req EXCEPT ![r] = q]
Continues(r, q) == req' = [req EXCEPT ![r] = q]

\* ================================================== the chat UI (ChatBox)
\* calls of sendMessage in a run
MaxSends == 3

\* what the user may have typed: nothing, blanks, a message between
\* blanks, a message
InputTexts == {<<>>, <<" ", " ">>, <<" ", "h", "i", " ">>, <<"o", "k">>}

MsgOops == <<"O", "o", "p", "s", "!", " ", "S", "o", "m", "e", "t", "h", "i", "n", "g", " ", "w", "e", "n", "t", " ", "w", "r", "o", "n", "g", ".", " ", "P", "l", "e", "a", "s", "e", " ", "t", "r", "y", " ", "a", "g", "a", "i", "n", ".">>

\* how a chat request may settle: axios resolves with the body of a 2xx
\* answer, or rejects (an answer outside 2xx, no answer at all)
ChatOutcomes ==
    { [ok |-> TRUE, data |-> [t |-> "object", reply |-> Str(ReplyText)]],
      [ok |-> TRUE, data |-> [t |-> "object", reply |-> Str(ReplyUnclear)]],
      [ok |-> FALSE, data |-> [t |-> "object", reply |-> Str(MsgRequired)]],
      [ok |-> FALSE, data |-> Undefined] }

\* ChatBox.js lines 40-51: the ai message a settled request leaves;
\* reading reply of a missing body throws into the catch block
aiMessageOf(outcome) ==
    IF outcome.ok /\ ~throwsOnProperty(outcome.data)
    THEN [sender |-> "ai", content |-> get(outcome.data, "reply")]
    ELSE [sender |-> "ai", content |-> Str(MsgOops)]

\* a list that replaces what it held by the new message (not the code's)
addMessageReplacing(prevMessages, message) == <<message>>

\* AdminUpload.js lines 179-181: setMessages(prev => [...prev, message])
addMessage(prevMessages, message) == Append(prevMessages, message)

ChatBoxInit ==
    /\ cbMessages = <<>>
    /\ cbInput = <<>>
    /\ cbIsTyping = FALSE
    /\ cbPending = <<>>
    /\ cbSettled = "none"
    /\ cbCalls = 0

\* the sequence without its k-th element
without(seq, k) == SubSeq(seq, 1, k - 1) \o SubSeq(seq, k + 1, Len(seq))

\* line 83: onChange of the input
SetInput(text) ==
    /\ cbInput' = text
    /\ UNCHANGED <<cbMessages, cbIsTyping, cbPending, cbSettled, cbCalls>>
    /\ UNCHANGED <<scorerVars, trimVars, serverVars, adminVars>>

\* lines 32-45: sendMessage up to the await of axios.post
SendMessage ==
    /\ cbCalls < MaxSends
    /\ cbCalls' = cbCalls + 1
    /\ IF trim(cbInput) = <<>>
       THEN UNCHANGED <<cbMessages, cbInput, cbIsTyping, cbPending>>
       ELSE /\ cbMessages' = addMessage(cbMessages,
                                        [sender |-> "user",
                                         content |-> Str(trim(cbInput))])
            /\ cbInput' = <<>>
            /\ cbIsTyping' = TRUE
            /\ cbPending' = Append(cbPending,
                                   [userId |-> Str(<<"d", "e", "m", "o", "_", "u", "s", "e", "r", "_", "1", "2", "3">>),
                                    message |-> Str(trim(cbInput))])
    /\ UNCHANGED cbSettled
    /\ UNCHANGED <<scorerVars, trimVars, serverVars, adminVars>>

\* lines 47-54: the k-th request in flight settles; the ai message is
\* added and the typing indicator is switched off
ChatSettles(k, outcome) ==
    /\ k \in 1..Len(cbPending)
    /\ cbMessages' = addMessage(cbMessages, aiMessageOf(outcome))
    /\ cbIsTyping' = FALSE
    /\ cbPending' = without(cbPending, k)
    /\ cbSettled' = <<outcome>>
    /\ UNCHANGED <<cbInput, cbCalls>>
    /\ UNCHANGED <<scorerVars, trimVars, serverVars, adminVars>>

\* ========================================= the admin form (AdminUpload)
\* calls of upload in a run
MaxUploads == 2

\* what the admin may have typed as title and as content: nothing, a
\* blank, a text
TitleTexts == {<<>>, <<" ">>, FaqTitle.v}
ContentTexts == {<<>>, <<" ">>, FaqContent.v}

\* e.target.files[0]: a file, or undefined when the dialog was cancelled
SelectedFiles == {PdfFile, PngFile, Undefined}

MsgTitleEmpty == <<"F", "A", "Q", " ", "T", "i", "t", "l", "e", " ", "c", "a", "n", "n", "o", "t", " ", "b", "e", " ", "e", "m", "p", "t", "y", "!", " ", "P", "l", "e", "a", "s", "e", " ", "p", "r", "o", "v", "i", "d", "e", " ", "a", " ", "t", "i", "t", "l", "e", ".">>
MsgContentOrFile == <<"P", "l", "e", "a", "s", "e", " ", "p", "r", "o", "v", "i", "d", "e", " ", "e", "i", "t", "h", "e", "r", " ", "F", "A", "Q", " ", "C", "o", "n", "t", "e", "n", "t", " ", "o", "r", " ", "u", "p", "l", "o", "a", "d", " ", "a", " ", "f", "i", "l", "e", ".">>
MsgUploadFailed == <<"F", "a", "i", "l", "e", "d", " ", "t", "o", " ", "u", "p", "l", "o", "a", "d", " ", "F", "A", "Q", ".", " ", "P", "l", "e", "a", "s", "e", " ", "c", "h", "e", "c", "k", " ", "y", "o", "u", "r", " ", "n", "e", "t", "w", "o", "r", "k", " ", "a", "n", "d", " ", "t", "r", "y", " ", "a", "g", "a", "i", "n", ".">>

EndpointFaqs == <<"/", "a", "p", "i", "/", "c", "h", "a", "t", "/", "f", "a", "q", "s">>
EndpointFile == <<"/", "a", "p", "i", "/", "c", "h", "a", "t", "/", "u", "p", "l", "o", "a", "d", "-", "f", "i", "l", "e", "-", "f", "a", "q">>

\* how an upload request may settle: axios resolves with the body of a 2xx
\* answer, or rejects with the answer's body (undefined for no answer)
UploadOutcomes ==
    { [ok |-> TRUE, data |-> [t |-> "object", message |-> Str(MsgFaqUploaded)]],
      [ok |-> TRUE, data |-> [t |-> "object", message |-> Str(MsgFileUploaded)]],
      [ok |-> TRUE, data |-> EmptyObject],
      [ok |-> FALSE, data |-> [t |-> "object", message |-> Str(MsgFileFailed)]],
      [ok |-> FALSE, data |-> Undefined] }

\* line 68: response.data.message && response.data.message.includes("successfully")
saysSuccessfully(data) ==
    /\ truthy(get(data, "message"))
    /\ includes(get(data, "message").v, <<"s", "u", "c", "c", "e", "s", "s", "f", "u", "l", "l", "y">>)

\* lines 85-87
errorMessageOf(data) ==
    IF truthy(data) /\ truthy(get(data, "message"))
    THEN get(data, "message").v
    ELSE MsgUploadFailed

\* lines 45-56: the request upload sends
uploadRequest(title, content, file) ==
    IF truthy(file)
    THEN [endpoint |-> EndpointFile, title |-> title, content |-> Undefined,
          file |-> file, mounted |-> TRUE]
    ELSE [endpoint |-> EndpointFaqs, title |-> title, content |-> Str(content),
          file |-> Undefined, mounted |-> TRUE]

\* App's showAdminPanel (line 176) and the state of a newly mounted
\* AdminUpload (lines 3-8)
AdminInit ==
    /\ showAdminPanel = FALSE
    /\ auTitle = <<>>
    /\ auContent = <<>>
    /\ auFile = Null
    /\ auMessage = <<>>
    /\ auShowModal = FALSE
    /\ auModalMessage = <<>>
    /\ auTimers = 0
    /\ auPending = <<>>
    /\ auSettled = <<>>
    /\ auCalls = 0

UiOff == ChatBoxInit /\ AdminInit

\* the requests in flight of an AdminUpload that has been unmounted: their
\* answers no longer reach a mounted component
orphaned(pending) == [k \in 1..Len(pending) |-> [pending[k] EXCEPT !.mounted = FALSE]]

\* App renders AdminUpload only while showAdminPanel holds: hiding the
\* panel unmounts it, its state and its timers are gone
Unmount ==
    /\ showAdminPanel' = FALSE
    /\ auTitle' = <<>>
    /\ auContent' = <<>>
    /\ auFile' = Null
    /\ auMessage' = <<>>
    /\ auShowModal' = FALSE
    /\ auModalMessage' = <<>>
    /\ auTimers' = 0

\* lines 187-189: the cog is clicked
OpenPanel ==
    /\ ~showAdminPanel
    /\ showAdminPanel' = TRUE
    /\ UNCHANGED <<auTitle, auContent, auFile, auMessage, auShowModal,
                   auModalMessage, auPending, auTimers, auCalls, auSettled>>
    /\ UNCHANGED <<scorerVars, trimVars, serverVars, chatBoxVars>>

\* line 157: Back to Chat
ClosePanel ==
    /\ showAdminPanel
    /\ Unmount
    /\ auPending' = orphaned(auPending)
    /\ UNCHANGED <<auCalls, auSettled>>
    /\ UNCHANGED <<scorerVars, trimVars, serverVars, chatBoxVars>>

\* line 117: onChange of the title
SetTitle(text) ==
    /\ showAdminPanel
    /\ auTitle' = text
    /\ UNCHANGED <<showAdminPanel, auContent, auFile, auMessage, auShowModal,
                   auModalMessage, auPending, auTimers, auCalls, auSettled>>
    /\ UNCHANGED <<scorerVars, trimVars, serverVars, chatBoxVars>>

\* an onChange that leaves the selected file (not the code's)
SetContentKeepingFile(text) ==
    /\ showAdminPanel
    /\ auContent' = text
    /\ UNCHANGED <<showAdminPanel, auTitle, auFile, auMessage, auShowModal,
                   auModalMessage, auPending, auTimers, auCalls, auSettled>>
    /\ UNCHANGED <<scorerVars, trimVars, serverVars, chatBoxVars>>

\* line 123: onChange of the content
SetContent(text) ==
    /\ showAdminPanel
    /\ auContent' = text
    /\ auFile' = Null
    /\ UNCHANGED <<showAdminPanel, auTitle, auMessage, auShowModal,
                   auModalMessage, auPending, auTimers, auCalls, auSettled>>
    /\ UNCHANGED <<scorerVars, trimVars, serverVars, chatBoxVars>>

\* lines 97-107: handleFileChange
FileChange(selectedFile) ==
    /\ showAdminPanel
    /\ IF truthy(selectedFile)
       THEN /\ auFile' = selectedFile
            /\ auContent' = <<>>
            /\ auMessage' = <<>>
            /\ auShowModal' = FALSE
            /\ auModalMessage' = <<>>
       ELSE /\ auFile' = Null
            /\ UNCHANGED <<auContent, auMessage, auShowModal, auModalMessage>>
    /\ UNCHANGED <<showAdminPanel, auTitle, auPending, auTimers, auCalls, auSettled>>
    /\ UNCHANGED <<scorerVars, trimVars, serverVars, chatBoxVars>>

\* lines 21-24, the modal's onClose
CloseModal ==
    /\ showAdminPanel
    /\ auShowModal
    /\ auShowModal' = FALSE
    /\ auModalMessage' = <<>>
    /\ UNCHANGED <<showAdminPanel, auTitle, auContent, auFile, auMessage,
                   auPending, auTimers, auCalls, auSettled>>
    /\ UNCHANGED <<scorerVars, trimVars, serverVars, chatBoxVars>>

\* lines 28-65: upload up to the await of axios.post
Upload ==
    /\ showAdminPanel
    /\ auCalls < MaxUploads
    /\ auCalls' = auCalls + 1
    /\ IF trim(auTitle) = <<>>
       THEN /\ auMessage' = <<>>
            /\ auShowModal' = TRUE
            /\ auModalMessage' = MsgTitleEmpty
            /\ UNCHANGED auPending
       ELSE IF trim(auContent) = <<>> /\ ~truthy(auFile)
       THEN /\ auMessage' = <<>>
            /\ auShowModal' = TRUE
            /\ auModalMessage' = MsgContentOrFile
            /\ UNCHANGED auPending
       ELSE /\ auMessage' = IF truthy(auFile) THEN <<"F", "i", "l", "e", " ", "u", "p", "l", "o", "a", "d", " ", "i", "n", "i", "t", "i", "a", "t", "e", "d", ".", " ", "T", "e", "x", "t", " ", "w", "i", "l", "l", " ", "b", "e", " ", "e", "x", "t", "r", "a", "c", "t", "e", "d", " ", "f", "r", "o", "m", " ", "s", "u", "p", "p", "o", "r", "t", "e", "d", " ", "f", "i", "l", "e", " ", "t", "y", "p", "e", "s", " ", "(", "e", ".", "g", ".", ",", " ", "P", "D", "F", ",", " ", "p", "l", "a", "i", "n", " ", "t", "e", "x", "t", ")", ".">>
                            ELSE <<"F", "A", "Q", " ", "u", "p", "l", "o", "a", "d", " ", "i", "n", "i", "t", "i", "a", "t", "e", "d", ".">>
            /\ auShowModal' = FALSE
            /\ auModalMessage' = <<>>
            /\ auPending' = Append(auPending,
                                   uploadRequest(auTitle, auContent, auFile))
    /\ UNCHANGED <<showAdminPanel, auTitle, auContent, auFile, auTimers, auSettled>>
    /\ UNCHANGED <<scorerVars, trimVars, serverVars, chatBoxVars>>

\* lines 65-93: the k-th upload in flight settles. A resolved one whose
\* message says successfully clears the form and calls onUploadSuccess,
\* which hides the panel (lines 183-185); any other leaves the form, sets
\* the message (and, rejected, the modal) and starts the 5 s timer. Of a
\* request sent by an AdminUpload since unmounted only onUploadSuccess
\* still has an effect.
UploadSettles(k, outcome) ==
    /\ k \in 1..Len(auPending)
    /\ LET throws == outcome.ok /\ throwsOnProperty(outcome.data)
           success == outcome.ok /\ ~throws /\ saysSuccessfully(outcome.data)
           rest == without(auPending, k)
       IN  IF success
           THEN IF showAdminPanel
                THEN Unmount /\ auPending' = orphaned(rest)
                ELSE /\ auPending' = rest
                     /\ UNCHANGED <<showAdminPanel, auTitle, auContent, auFile,
                                    auMessage, auShowModal, auModalMessage,
                                    auTimers>>
           ELSE IF ~auPending[k].mounted
           THEN /\ auPending' = rest
                /\ UNCHANGED <<showAdminPanel, auTitle, auContent, auFile,
                               auMessage, auShowModal, auModalMessage, auTimers>>
           ELSE IF outcome.ok /\ ~throws
           THEN /\ auMessage' = IF truthy(get(outcome.data, "message"))
                                THEN get(outcome.data, "message").v
                                ELSE <<"U", "p", "l", "o", "a", "d", " ", "c", "o", "m", "p", "l", "e", "t", "e", "d", " ", "w", "i", "t", "h", " ", "a", "n", " ", "u", "n", "e", "x", "p", "e", "c", "t", "e", "d", " ", "m", "e", "s", "s", "a", "g", "e", ".">>
                /\ auTimers' = auTimers + 1
                /\ auPending' = rest
                /\ UNCHANGED <<showAdminPanel, auTitle, auContent, auFile,
                               auShowModal, auModalMessage>>
           ELSE /\ auMessage' = errorMessageOf(IF outcome.ok THEN Undefined
                                               ELSE outcome.data)
                /\ auShowModal' = TRUE
                /\ auModalMessage' = auMessage'
                /\ auTimers' = auTimers + 1
                /\ auPending' = rest
                /\ UNCHANGED <<showAdminPanel, auTitle, auContent, auFile>>
    /\ auSettled' = <<outcome>>
    /\ UNCHANGED auCalls
    /\ UNCHANGED <<scorerVars, trimVars, serverVars, chatBoxVars>>

\* line 92: a timer runs out
MessageTimeout ==
    /\ auTimers > 0
    /\ auTimers' = auTimers - 1
    /\ auMessage' = <<>>
    /\ UNCHANGED <<showAdminPanel, auTitle, auContent, auFile, auShowModal,
                   auModalMessage, auPending, auCalls, auSettled>>
    /\ UNCHANGED <<scorerVars, trimVars, serverVars, chatBoxVars>>

\* ------------------------------------------- specification of the chat UI
InitChatBox ==
    /\ ChatBoxInit
    /\ AdminInit
    /\ ScorerOff
    /\ TrimOff
    /\ ServerInit

NextChatBox ==
    \/ \E text \in InputTexts : SetInput(text)
    \/ SendMessage
    \/ \E k \in 1..MaxSends : \E outcome \in ChatOutcomes : ChatSettles(k, outcome)

SpecChatBox == InitChatBox /\ [][NextChatBox]_vars

\* ----------------------------------------- specification of the admin form
InitAdminUpload ==
    /\ AdminInit
    /\ ChatBoxInit
    /\ ScorerOff
    /\ TrimOff
    /\ ServerInit

NextAdminUpload ==
    \/ OpenPanel
    \/ ClosePanel
    \/ \E text \in TitleTexts : SetTitle(text)
    \/ \E text \in ContentTexts : SetContent(text)
    \/ \E selectedFile \in SelectedFiles : FileChange(selectedFile)
    \/ CloseModal
    \/ Upload
    \/ \E k \in 1..MaxUploads : \E outcome \in UploadOutcomes : UploadSettles(k, outcome)
    \/ MessageTimeout

SpecAdminUpload == InitAdminUpload /\ [][NextAdminUpload]_vars
\* ------------------------------------------- specification of the scorer
ScorerInit ==
    /\ scQuery \in Queries
    /\ scCorpus \in Corpora
    /\ scResult = <<>>
    /\ scPc = "call"

RunScorer ==
    /\ scPc = "call"
    /\ scResult' = findRelevantFaqs(scQuery, scCorpus)
    /\ scPc' = "done"
    /\ UNCHANGED <<scQuery, scCorpus, trimVars, serverVars, uiVars>>

InitScorer ==
    /\ ScorerInit
    /\ TrimOff
    /\ ServerInit
    /\ UiOff

SpecScorer == InitScorer /\ [][RunScorer]_vars

\* ----------------------------------------- specification of the trimming
\* what findRelevantFaqs returned: nothing, one FAQ, two FAQs
RelevantFaqSets == {<<>>, <<RefundFaq>>, <<RefundFaq, PolicyFaq>>}

TrimInit ==
    /\ trMessages \in Histories
    /\ trKept = <<>>
    /\ trPc = "call"
    /\ trFaqs \in RelevantFaqSets
    /\ trQuery = MessageText.v
    /\ trPayload = <<>>

RunTrim ==
    /\ trPc = "call"
    /\ trKept' = trimHistory(trMessages)
    /\ trPc' = "done"
    /\ UNCHANGED <<trMessages, trFaqs, trQuery, trPayload, scorerVars, serverVars, uiVars>>

\* lines 84-128 after the trimming: the kept turns are mapped to
\* role-tagged messages and put between the instruction and the query
RunPayload ==
    /\ trPc = "done"
    /\ trPayload' = payloadContents(trFaqs, toChatHistory(trKept), trQuery)
    /\ trPc' = "sent"
    /\ UNCHANGED <<trMessages, trKept, trFaqs, trQuery, scorerVars, serverVars, uiVars>>

InitTrim ==
    /\ TrimInit
    /\ ScorerOff
    /\ ServerInit
    /\ UiOff

NextTrim ==
    \/ RunTrim
    \/ RunPayload

SpecTrim == InitTrim /\ [][NextTrim]_vars

\* ============================================================ POST /chat
NewChat(userId, message) ==
    [NoReq EXCEPT !.kind = "chat", !.userId = userId, !.message = message]

\* lines 69-80: validation, then FAQ.find({}) is issued
ChatReceive(r, userId, message) ==
    /\ Free(r)
    /\ started < MaxRequests
    /\ started' = started + 1
    /\ IF chatInputValid(userId, message)
       THEN Continues(r, [NewChat(userId, message) EXCEPT
                              !.pc = "faqFind", !.storeCalls = 1])
       ELSE Ends(r, Responded(NewChat(userId, message), 400,
                              [reply |-> MsgRequired]))
    /\ UNCHANGED <<faqStore, chatStore, scorerVars, trimVars, uiVars>>

\* lines 80-93: FAQ.find resolves; the FAQs are scored and Chat.findOne is
\* issued
ChatFaqsFound(r) ==
    /\ At(r, "faqFind")
    /\ Continues(r, [req[r] EXCEPT
                         !.relevantFaqs = findRelevantFaqs(req[r].message.v, faqStore),
                         !.pc = "chatFind",
                         !.storeCalls = @ + 1])
    /\ UNCHANGED <<faqStore, chatStore, started, scorerVars, trimVars, uiVars>>

\* FAQ.find rejects
ChatFaqFindFails(r) ==
    /\ At(r, "faqFind")
    /\ Ends(r, Caught(req[r], StoreError, "faqFind"))
    /\ UNCHANGED <<faqStore, chatStore, started, scorerVars, trimVars, uiVars>>

\* lines 93-151: Chat.findOne resolves; the history is trimmed, the payload
\* built and axios.post issued
ChatFound(r) ==
    /\ At(r, "chatFind")
    /\ LET q == req[r]
           id == findOne(chatStore, q.userId.v)
           chat == IF id = 0 THEN Null
                   ELSE [t |-> "object", id |-> id,
                         messages |-> chatStore[id].messages]
           chatHistory == IF truthy(chat)
                          THEN toChatHistory(trimHistory(chat.messages))
                          ELSE <<>>
       IN  Continues(r, [q EXCEPT
                             !.chat = chat,
                             !.seen = IF truthy(chat) THEN Len(chat.messages) ELSE 0,
                             !.payload = payloadContents(q.relevantFaqs, chatHistory,
                                                         q.message.v),
                             !.pc = "upstream",
                             !.llmCalls = @ + 1])
    /\ UNCHANGED <<faqStore, chatStore, started, scorerVars, trimVars, uiVars>>

\* Chat.findOne rejects
ChatFindFails(r) ==
    /\ At(r, "chatFind")
    /\ Ends(r, Caught(req[r], StoreError, "chatFind"))
    /\ UNCHANGED <<faqStore, chatStore, started, scorerVars, trimVars, uiVars>>

\* lines 152-171: axios.post resolves; the reply is extracted, the two
\* turns are pushed and chat.save() is issued
UpstreamResponds(r, response) ==
    /\ At(r, "upstream")
    /\ LET q == req[r]
           e == extractReply(response)
           doc == IF truthy(q.chat) THEN q.chat
                  ELSE [t |-> "object", id |-> 0, messages |-> <<>>]
       IN  IF e.threw
           THEN Ends(r, Caught(q, TypeError, "extract"))
           ELSE Continues(r, [q EXCEPT
                                  !.reply = e.reply,
                                  !.chat = doc,
                                  !.pushed = pushedTurns(q.message, e.reply),
                                  !.pc = "save",
                                  !.storeCalls = @ + 1])
    /\ UNCHANGED <<faqStore, chatStore, started, scorerVars, trimVars, uiVars>>

\* axios.post rejects
UpstreamFails(r, error) ==
    /\ At(r, "upstream")
    /\ Ends(r, Caught(req[r], error, "upstream"))
    /\ UNCHANGED <<faqStore, chatStore, started, scorerVars, trimVars, uiVars>>

\* lines 171-174: chat.save() resolves
ChatSaved(r) ==
    /\ At(r, "save")
    /\ chatSaveAccepted(chatStore, req[r].chat, req[r].userId.v, req[r].pushed)
    /\ chatStore' = applyChatSave(chatStore, req[r].chat, req[r].userId.v,
                                  req[r].pushed)
    /\ Ends(r, Responded(req[r], 200, [reply |-> req[r].reply.v]))
    /\ UNCHANGED <<faqStore, started, scorerVars, trimVars, uiVars>>

\* chat.save() rejects: a turn fails validation, the user's record exists
\* already, or the store is unavailable
ChatSaveFails(r) ==
    /\ At(r, "save")
    /\ Ends(r, Caught(req[r],
                      IF ~turnsValid(req[r].pushed) THEN ValidationError
                      ELSE IF ~chatSaveAccepted(chatStore, req[r].chat,
                                                req[r].userId.v, req[r].pushed)
                      THEN DuplicateKeyError
                      ELSE StoreError,
                      "save"))
    /\ UNCHANGED <<faqStore, chatStore, started, scorerVars, trimVars, uiVars>>

\* ============================================================ POST /faqs
NewFaq(title, content) ==
    [NoReq EXCEPT !.kind = "faq", !.title = title, !.content = content]

\* a handler that hands every body to the save (not the code's)
FaqReceiveUnchecked(r, title, content) ==
    /\ Free(r)
    /\ started < MaxRequests
    /\ started' = started + 1
    /\ Continues(r, [NewFaq(title, content) EXCEPT
                         !.pc = "faqSave", !.storeCalls = 1])
    /\ UNCHANGED <<faqStore, chatStore, scorerVars, trimVars, uiVars>>

\* lines 206-218
FaqReceive(r, title, content) ==
    /\ Free(r)
    /\ started < MaxRequests
    /\ started' = started + 1
    /\ IF truthy(title) /\ truthy(content)
       THEN Continues(r, [NewFaq(title, content) EXCEPT
                              !.pc = "faqSave", !.storeCalls = 1])
       ELSE Ends(r, Responded(NewFaq(title, content), 400,
                              [message |-> MsgFaqRequired]))
    /\ UNCHANGED <<faqStore, chatStore, scorerVars, trimVars, uiVars>>

\* lines 218-220
FaqSaved(r) ==
    /\ At(r, "faqSave")
    /\ faqValid(req[r].title, req[r].content)
    /\ LET newFAQ == [title |-> req[r].title.v, content |-> req[r].content.v]
       IN  /\ faqStore' = Append(faqStore, newFAQ)
           /\ Ends(r, Responded(req[r], 201,
                                [message |-> MsgFaqUploaded, faq |-> newFAQ]))
    /\ UNCHANGED <<chatStore, started, scorerVars, trimVars, uiVars>>

\* a save that has written the entry although it is answered 500 (not the
\* code's)
FaqSaveFailsAfterWrite(r) ==
    /\ At(r, "faqSave")
    /\ faqStore' = Append(faqStore, [title |-> req[r].title.v,
                                     content |-> req[r].content.v])
    /\ Ends(r, Responded([req[r] EXCEPT !.failure = "save"], 500,
                         [message |-> MsgFaqFailed,
                          error |-> StoreError.message]))
    /\ UNCHANGED <<chatStore, started, scorerVars, trimVars, uiVars>>

\* lines 221-224
FaqSaveFails(r) ==
    /\ At(r, "faqSave")
    /\ Ends(r, Responded([req[r] EXCEPT !.failure = "save"], 500,
                         [message |-> MsgFaqFailed,
                          error |-> StoreError.message]))
    /\ UNCHANGED <<faqStore, chatStore, started, scorerVars, trimVars, uiVars>>

\* ================================================== POST /upload-file-faq
NewUpload(title, file) ==
    [NoReq EXCEPT !.kind = "upload", !.title = title, !.file = file]

\* lines 228-263: validation; a PDF goes to pdf-parse, any other file is
\* extracted at once and newFAQ.save() is issued
UploadReceive(r, title, file) ==
    /\ Free(r)
    /\ started < MaxRequests
    /\ started' = started + 1
    /\ IF ~truthy(title) \/ ~truthy(file)
       THEN Ends(r, Responded(NewUpload(title, file), 400,
                              [message |-> MsgFileRequired]))
       ELSE IF file.mimetype = MimePdf
       THEN Continues(r, [NewUpload(title, file) EXCEPT !.pc = "pdf"])
       ELSE Continues(r, [NewUpload(title, file) EXCEPT
                              !.content = Str(extractContent(file)),
                              !.pc = "uploadSave", !.storeCalls = 1])
    /\ UNCHANGED <<faqStore, chatStore, scorerVars, trimVars, uiVars>>

\* lines 244-246: pdf-parse resolves with data.text
PdfParsed(r, text) ==
    /\ At(r, "pdf")
    /\ Continues(r, [req[r] EXCEPT
                         !.content = Str(text),
                         !.pc = "uploadSave", !.storeCalls = 1])
    /\ UNCHANGED <<faqStore, chatStore, started, scorerVars, trimVars, uiVars>>

\* a handler that answers 500 when pdf-parse rejects (not the code's)
PdfFailsUpload(r) ==
    /\ At(r, "pdf")
    /\ Ends(r, Responded([req[r] EXCEPT !.failure = "pdf"], 500,
                         [message |-> MsgFileFailed, error |-> PdfErrorMessage]))
    /\ UNCHANGED <<faqStore, chatStore, started, scorerVars, trimVars, uiVars>>

\* lines 247-250: pdf-parse rejects
PdfFails(r) ==
    /\ At(r, "pdf")
    /\ Continues(r, [req[r] EXCEPT
                         !.content = Str(pdfFailurePlaceholder(PdfErrorMessage)),
                         !.pc = "uploadSave", !.storeCalls = 1])
    /\ UNCHANGED <<faqStore, chatStore, started, scorerVars, trimVars, uiVars>>

\* lines 259-265
UploadSaved(r) ==
    /\ At(r, "uploadSave")
    /\ faqValid(req[r].title, req[r].content)
    /\ LET newFAQ == [title |-> req[r].title.v, content |-> req[r].content.v]
       IN  /\ faqStore' = Append(faqStore, newFAQ)
           /\ Ends(r, Responded(req[r], 201,
                                [message |-> MsgFileUploaded, faq |-> newFAQ]))
    /\ UNCHANGED <<chatStore, started, scorerVars, trimVars, uiVars>>

\* lines 267-270: newFAQ.save() rejects (validation, or the store)
UploadSaveFails(r) ==
    /\ At(r, "uploadSave")
    /\ Ends(r, Responded([req[r] EXCEPT !.failure = "save"], 500,
                         [message |-> MsgFileFailed,
                          error |-> IF faqValid(req[r].title, req[r].content)
                                    THEN StoreError.message
                                    ELSE ValidationError.message]))
    /\ UNCHANGED <<faqStore, chatStore, started, scorerVars, trimVars, uiVars>>

\* the handler has returned; the handlers that arrived after it move up
Release(r) ==
    /\ Ended(req[r])
    /\ req' = [s \in ReqIds |->
                   IF s < r THEN req[s]
                   ELSE IF s + 1 \in ReqIds THEN req[s + 1]
                   ELSE NoReq]
    /\ UNCHANGED <<faqStore, chatStore, started, scorerVars, trimVars, uiVars>>

\* ------------------------------------------ specification of the server
Init ==
    /\ ServerInit
    /\ ScorerOff
    /\ TrimOff
    /\ UiOff

Next ==
    \E r \in ReqIds :
        \/ \E body \in ChatBodies : ChatReceive(r, body.userId, body.message)
        \/ ChatFaqsFound(r)
        \/ ChatFaqFindFails(r)
        \/ ChatFound(r)
        \/ ChatFindFails(r)
        \/ \E response \in UpstreamResponses : UpstreamResponds(r, response)
        \/ \E error \in UpstreamErrors : UpstreamFails(r, error)
        \/ ChatSaved(r)
        \/ ChatSaveFails(r)
        \/ \E body \in FaqBodies : FaqReceive(r, body.title, body.content)
        \/ FaqSaved(r)
        \/ FaqSaveFails(r)
        \/ \E body \in UploadBodies : UploadReceive(r, body.title, body.file)
        \/ \E text \in PdfTexts : PdfParsed(r, text)
        \/ PdfFails(r)
        \/ UploadSaved(r)
        \/ UploadSaveFails(r)
        \/ Release(r)

Spec == Init /\ [][Next]_vars

\* ================================================================ claims

\* C1: for every query and corpus (the empty corpus too) findRelevantFaqs
\* returns at most 3 entries, each an entry of the corpus, in
\* non-increasing order of their score.
C1_AtMostThreeSorted ==
    scPc = "done" =>
        /\ Len(scResult) <= 3
        /\ \A i \in 1..Len(scResult) :
              \E j \in 1..Len(scCorpus) : scResult[i] = scCorpus[j]
        /\ \A i \in 1..(Len(scResult) - 1) :
              score(scQuery, scResult[i]) >= score(scQuery, scResult[i + 1])

\* a corpus with four entries over the threshold, cut to three of
\* different scores
C1_Witness ==
    /\ scPc = "done"
    /\ Len(SelectSeq(scCorpus, LAMBDA f : score(scQuery, f) >= 1)) >= 4
    /\ Len(scResult) = 3
    /\ score(scQuery, scResult[1]) > score(scQuery, scResult[3])

\* C2 as stated: against the single entry "Refund Policy" the query
\* "what is your refund policy" scores at least 5 and the entry is returned.
C2_ScoreAtLeastFive ==
    (scPc = "done" /\ scQuery = QueryRefundPolicy /\ scCorpus = <<RefundFaq>>) =>
        /\ score(scQuery, RefundFaq) >= 5
        /\ scResult = <<RefundFaq>>

\* C2 as amended: the entry scores exactly 4 (the words "refund" and
\* "policy" are in the title; the query is not a substring of the title, so
\* the +5 is not awarded) and the entry is returned.
C2_ScoreIsFour ==
    (scPc = "done" /\ scQuery = QueryRefundPolicy /\ scCorpus = <<RefundFaq>>) =>
        /\ score(scQuery, RefundFaq) = 4
        /\ ~includes(normalizeText(RefundFaq.title), normalizeText(scQuery))
        /\ scResult = <<RefundFaq>>

C2_Witness ==
    scPc = "done" /\ scQuery = QueryRefundPolicy /\ scCorpus = <<RefundFaq>>

\* C3: against the single entry "Refund Policy" the query "xyz qux" scores 0
\* and the scorer returns the empty sequence.
C3_UnrelatedQueryEmpty ==
    (scPc = "done" /\ scQuery = QueryUnrelated /\ scCorpus = <<RefundFaq>>) =>
        /\ score(scQuery, RefundFaq) = 0
        /\ scResult = <<>>

C3_Witness ==
    scPc = "done" /\ scQuery = QueryUnrelated /\ scCorpus = <<RefundFaq>>
        /\ scResult = <<>>

\* C4: of a stored history of 7 (or more) alternating user/ai turns,
\* trimming keeps exactly the last 6 turns when the last turn is the user's
\* and exactly the last 5 when it is the assistant's, a suffix of the
\* history in its order.
Alternating(h) ==
    /\ \A i \in 1..Len(h) : h[i].sender \in {"user", "ai"}
    /\ \A i \in 1..(Len(h) - 1) : h[i].sender # h[i + 1].sender

C4_TrimKeepsSuffix ==
    (trPc = "done" /\ Len(trMessages) >= 7 /\ Alternating(trMessages)) =>
        LET n == Len(trMessages)
        IN  /\ trMessages[n].sender = "user" => trKept = SubSeq(trMessages, n - 5, n)
            /\ trMessages[n].sender = "ai" => trKept = SubSeq(trMessages, n - 4, n)

C4_Witness ==
    /\ trPc = "done" /\ Len(trMessages) = 7 /\ Alternating(trMessages)
    /\ trMessages[7].sender = "user"
    /\ Len(trKept) = 6


\* ------------------------------------------------ claims on the handlers
\* the step in which handler r returns
Answers(r) == ~Ended(req[r]) /\ Ended(req'[r])

\* the first part of the first candidate is there and carries a text
HasTextPart(data) ==
    /\ data.t = "object"
    /\ get(data, "candidates").t = "array"
    /\ Len(get(data, "candidates").items) > 0
    /\ get(get(get(data, "candidates").items[1], "content"), "parts").t = "array"
    /\ Len(get(get(get(data, "candidates").items[1], "content"), "parts").items) > 0
    /\ get(get(get(get(data, "candidates").items[1], "content"), "parts").items[1],
           "text").t = "string"

TextPartOf(data) ==
    get(get(get(get(data, "candidates").items[1], "content"), "parts").items[1],
        "text").v

\* C5: reply extraction is total. For every upstream response object the
\* handler may receive, whatever its shape, extraction does not throw and
\* yields a string: the text of the first part of the first candidate when
\* it is there, the fixed fallback string otherwise; so no handler leaves
\* by an exception of the extraction, and the reply handed to the save is
\* a string.
C5_ExtractionTotal ==
    \A r \in ReqIds :
        /\ req[r].pc = "upstream" =>
              \A response \in UpstreamResponses :
                  /\ ~extractReply(response).threw
                  /\ extractReply(response).reply =
                         IF HasTextPart(response.data)
                         THEN Str(TextPartOf(response.data))
                         ELSE Str(ReplyUnclear)
        /\ req[r].failure # "extract"
        /\ req[r].pc = "save" => req[r].reply.t = "string"

C7_InvalidChatRejected ==
    /\ [](\A r \in ReqIds :
             (/\ req[r].kind = "chat"
              /\ (~truthy(req[r].userId) \/ ~truthy(req[r].message))) =>
                 /\ req[r].pc = "done"
                 /\ req[r].status = 400
                 /\ req[r].responses = 1
                 /\ req[r].storeCalls = 0
                 /\ req[r].llmCalls = 0)
    /\ [][\A r \in ReqIds :
             (/\ Answers(r)
              /\ req'[r].kind = "chat"
              /\ (~truthy(req'[r].userId) \/ ~truthy(req'[r].message))) =>
                 /\ chatStore' = chatStore
                 /\ faqStore' = faqStore]_vars

\* a request with an empty message of a user who has a conversation
\* record is answered 400
C7_Witness ==
    \E r \in ReqIds :
        /\ req[r].kind = "chat"
        /\ req[r].message = Str(<<>>)
        /\ truthy(req[r].userId)
        /\ req[r].status = 400
        /\ findOne(chatStore, req[r].userId.v) # 0

\* C8: a valid chat request that meets a downstream failure (the FAQ
\* fetch, the conversation lookup, the upstream call with any status or
\* network error, the save) is answered 500 with a non-empty reply string.
C8_FailureAnswered500 ==
    \A r \in ReqIds :
        (/\ req[r].kind = "chat"
         /\ req[r].failure \in {"faqFind", "chatFind", "upstream", "save"}) =>
            /\ req[r].pc = "done"
            /\ req[r].status = 500
            /\ req[r].body.reply # <<>>

\* C9: every request ends with exactly one response; no exception leaves a
\* handler.
C9_NoEscape ==
    \A r \in ReqIds :
        /\ req[r].pc # "escaped"
        /\ Ended(req[r]) => req[r].responses = 1

\* C10: the step that answers a chat with 200 appends to the user's record
\* (created by this step for a user without one) exactly the user turn of
\* the request's message and then the ai turn of the returned reply, and
\* changes no other record; and no step of any handler removes a record,
\* changes the user of a record, or removes or changes a stored turn.
C10_AppendsTwoTurns ==
    [][/\ \A r \in ReqIds :
             (Answers(r) /\ req'[r].kind = "chat" /\ req'[r].status = 200) =>
                 \E i \in 1..Len(chatStore') :
                     /\ chatStore'[i].userId = req'[r].userId.v
                     /\ chatStore'[i].messages =
                            (IF i <= Len(chatStore) THEN chatStore[i].messages ELSE <<>>)
                                \o <<[sender |-> "user", content |-> req'[r].message.v],
                                     [sender |-> "ai", content |-> req'[r].body.reply]>>
                     /\ Len(chatStore') = IF i <= Len(chatStore) THEN Len(chatStore)
                                          ELSE Len(chatStore) + 1
                     /\ \A j \in 1..Len(chatStore) : j # i => chatStore'[j] = chatStore[j]
       /\ Len(chatStore') >= Len(chatStore)
       /\ \A j \in 1..Len(chatStore) :
             /\ chatStore'[j].userId = chatStore[j].userId
             /\ Len(chatStore'[j].messages) >= Len(chatStore[j].messages)
             /\ SubSeq(chatStore'[j].messages, 1, Len(chatStore[j].messages))
                    = chatStore[j].messages]_vars

\* two exchanges of one user that ran at the same time, after a first one
\* that created the record, have both been appended: the record holds six
\* turns and the handler that answered last read it when it held two
C10_Witness ==
    \E r \in ReqIds :
        /\ req[r].kind = "chat"
        /\ req[r].pc = "done"
        /\ req[r].status = 200
        /\ findOne(chatStore, req[r].userId.v) # 0
        /\ Len(chatStore[findOne(chatStore, req[r].userId.v)].messages) = 6
        /\ req[r].seen = 2

\* C11: the conversation store never holds two records of one userId, also
\* when first messages of one new user are handled at the same time (each
\* handler found no record and inserts one); and a record appears only in
\* the step in which a chat handler of that user, which had reached its
\* save, saves.
C11_OneRecordPerUser ==
    /\ [](\A i, j \in 1..Len(chatStore) :
             chatStore[i].userId = chatStore[j].userId => i = j)
    /\ [][\A i \in 1..Len(chatStore') :
             i > Len(chatStore) =>
                 \E r \in ReqIds :
                     /\ req[r].kind = "chat"
                     /\ req[r].pc = "save"
                     /\ req[r].userId.v = chatStore'[i].userId
                     /\ Answers(r)]_vars

\* two first messages of one user ran at the same time: one has created
\* the record, the other, which found none, is at its save
C11_Witness ==
    \E r \in ReqIds :
        /\ req[r].pc = "save"
        /\ req[r].chat.id = 0
        /\ req[r].seen = 0
        /\ findOne(chatStore, req[r].userId.v) # 0
        /\ Len(chatStore[findOne(chatStore, req[r].userId.v)].messages) = 2

\* C12: a chat handler calls the upstream service at most once: exactly
\* once when the validation and the two store reads have succeeded, never
\* when one of them failed, and not again after an upstream failure or a
\* malformed response; the other routes never call it.
C12_UpstreamCalledOnce ==
    \A r \in ReqIds :
        /\ req[r].llmCalls <= 1
        /\ req[r].kind # "chat" => req[r].llmCalls = 0
        /\ req[r].kind = "chat" =>
              /\ req[r].llmCalls = 1 <=>
                     \/ req[r].pc \in {"upstream", "save"}
                     \/ req[r].failure \in {"upstream", "extract", "save"}
                     \/ req[r].status = 200
              /\ (\/ req[r].status = 400
                  \/ req[r].pc \in {"faqFind", "chatFind"}
                  \/ req[r].failure \in {"faqFind", "chatFind"}) => req[r].llmCalls = 0

\* a request whose upstream call failed has been answered 500 after one
\* call
C12_Witness ==
    \E r \in ReqIds :
        /\ req[r].kind = "chat"
        /\ req[r].pc = "done"
        /\ req[r].failure = "upstream"
        /\ req[r].status = 500
        /\ req[r].llmCalls = 1

\* the FAQ block of the instruction: "Q: title", "A: content" for each FAQ,
\* the FAQs set apart by a rule
RECURSIVE FaqBlockOf(_)
FaqBlockOf(faqs) ==
    IF faqs = <<>> THEN <<>>
    ELSE <<"Q", ":", " ">> \o Head(faqs).title \o <<"\n">> \o <<"A", ":", " ">> \o Head(faqs).content
         \o (IF Tail(faqs) = <<>> THEN <<>>
             ELSE <<"\n", "\n">> \o <<"-", "-", "-">> \o <<"\n", "\n">> \o FaqBlockOf(Tail(faqs)))

\* C13: the contents sent upstream are, in this order: one user message
\* with the instruction text, followed by the FAQ block when a FAQ matched
\* and by nothing when none did; the kept turns of the history in stored
\* order, a user turn as role user and an ai turn as role model; one user
\* message with the query. That is 2 + (number of kept turns) messages.
C13_PayloadOrder ==
    trPc = "sent" =>
        /\ Len(trPayload) = 2 + Len(trKept)
        /\ trPayload[1].role = "user"
        /\ trPayload[1].text =
               IF trFaqs = <<>> THEN InstructionHead
               ELSE InstructionHead \o <<"*", "*", "R", "e", "l", "e", "v", "a", "n", "t", " ", "F", "A", "Q", "s", ":", "*", "*">> \o <<"\n">>
                        \o FaqBlockOf(trFaqs) \o <<"\n", "\n">>
        /\ \A i \in 1..Len(trKept) :
              /\ trPayload[i + 1].text = trKept[i].content
              /\ trKept[i].sender = "user" => trPayload[i + 1].role = "user"
              /\ trKept[i].sender = "ai" => trPayload[i + 1].role = "model"
        /\ trPayload[Len(trPayload)] = [role |-> "user", text |-> trQuery]
        /\ \E k \in 0..Len(trMessages) :
              trKept = SelectSeq(SubSeq(trMessages, k + 1, Len(trMessages)),
                                 LAMBDA m : m.sender \in {"user", "ai"})

\* a history of seven alternating turns that ends with a user turn, cut to
\* its last six, sent with two matched FAQs
C13_Witness ==
    /\ trPc = "sent"
    /\ Len(trMessages) = 7
    /\ \A i \in 1..7 : trMessages[i].sender = (IF i % 2 = 1 THEN "user" ELSE "ai")
    /\ Len(trFaqs) = 2
    /\ Len(trPayload) = 8
    /\ trPayload[2].role = "model"
    /\ trPayload[7].role = "user"

\* C14: POST /faqs without a title or without a content is answered 400
\* and stores nothing; with both, when the store accepts the write, it is
\* answered 201 with the message and the FAQ, and the FAQ store gains
\* exactly one entry, of the submitted title and content.
C14_TextFaqStored ==
    /\ [](\A r \in ReqIds :
             (req[r].kind = "faq" /\ Ended(req[r])) =>
                 IF ~truthy(req[r].title) \/ ~truthy(req[r].content)
                 THEN req[r].status = 400 /\ req[r].storeCalls = 0
                 ELSE \/ /\ req[r].status = 201
                         /\ DOMAIN req[r].body = {"message", "faq"}
                         /\ req[r].body.message = MsgFaqUploaded
                         /\ req[r].body.faq = [title |-> req[r].title.v,
                                               content |-> req[r].content.v]
                      \/ req[r].status = 500 /\ req[r].failure = "save")
    /\ [][\A r \in ReqIds :
             (Answers(r) /\ req'[r].kind = "faq") =>
                 IF req'[r].status = 201
                 THEN faqStore' = Append(faqStore, [title |-> req'[r].title.v,
                                                    content |-> req'[r].content.v])
                 ELSE faqStore' = faqStore]_vars

\* a text FAQ has been stored behind another entry and answered 201
C14_Witness ==
    \E r \in ReqIds :
        /\ req[r].kind = "faq"
        /\ req[r].status = 201
        /\ Len(faqStore) = 2
        /\ faqStore[2] = [title |-> FaqTitle.v, content |-> FaqContent.v]

\* C15: POST /upload-file-faq without a title or without a file is
\* answered 400 and stores nothing; with both, whatever the file's mimetype
\* and content (an empty text file and a PDF of empty text too), it is
\* answered 201 with a stored FAQ whose content is the extracted text of a
\* PDF, the raw text of a text/* file, and a placeholder for any other
\* file. (An answer 500 of a store that is unavailable is left aside.)
C15_UploadAnswered201 ==
    \A r \in ReqIds :
        (req[r].kind = "upload" /\ Ended(req[r])) =>
            IF ~truthy(req[r].title) \/ ~truthy(req[r].file)
            THEN req[r].status = 400 /\ req[r].storeCalls = 0
            ELSE \/ /\ req[r].status = 201
                    /\ Len(faqStore) > 0
                    /\ faqStore[Len(faqStore)] = req[r].body.faq
                    /\ req[r].body.faq.title = req[r].title.v
                    /\ CASE req[r].file.mimetype = MimePdf ->
                                req[r].body.faq.content \in PdfTexts
                                    \cup {<<"[", "F", "a", "i", "l", "e", "d", " ", "t", "o", " ", "e", "x", "t", "r", "a", "c", "t", " ", "t", "e", "x", "t", " ", "f", "r", "o", "m", " ", "P", "D", "F", ":", " ">>
                                              \o PdfErrorMessage \o <<"]">>}
                         [] startsWith(req[r].file.mimetype, <<"t", "e", "x", "t", "/">>) ->
                                req[r].body.faq.content = req[r].file.text
                         [] OTHER ->
                                req[r].body.faq.content =
                                    <<"[", "F", "i", "l", "e", " ", "u", "p", "l", "o", "a", "d", "e", "d", ":", " ", "a", ".", "p", "n", "g", ",", " ", "T", "y", "p", "e", ":", " ", "i", "m", "a", "g", "e", "/", "p", "n", "g", ",", " ", "S", "i", "z", "e", ":", " ", "3", " ", "b", "y", "t", "e", "s", "]">>
                 \/ /\ req[r].status = 500
                    /\ req[r].body.error = StoreError.message

\* the content stored for a PDF whose text could not be extracted
PdfPlaceholder == <<"[", "F", "a", "i", "l", "e", "d", " ", "t", "o", " ", "e", "x", "t", "r", "a", "c", "t", " ", "t", "e", "x", "t", " ", "f", "r", "o", "m", " ", "P", "D", "F", ":", " ">> \o PdfErrorMessage \o <<"]">>

\* C16: when the text extraction of an uploaded PDF fails the upload goes
\* on: the handler leaves the extraction for the save with the bracketed
\* placeholder that describes the failure as content (as it leaves it with
\* the text after a successful extraction), the placeholder is stored as
\* the FAQ's content and the upload is answered 201 with the same message
\* as any other upload; it is answered 500 only when the store does not
\* take the write.
C16_PdfFailureStored ==
    /\ [][\A r \in ReqIds :
             (Quiet /\ req[r].pc = "pdf" /\ req'[r] # req[r]) =>
                 /\ req'[r].pc = "uploadSave"
                 /\ req'[r].content \in {Str(text) : text \in PdfTexts}
                                            \cup {Str(PdfPlaceholder)}]_vars
    /\ [](\A r \in ReqIds :
             (/\ req[r].kind = "upload"
              /\ Ended(req[r])
              /\ req[r].content = Str(PdfPlaceholder)) =>
                 \/ /\ req[r].status = 201
                    /\ req[r].body.message = MsgFileUploaded
                    /\ req[r].body.faq = [title |-> req[r].title.v,
                                          content |-> PdfPlaceholder]
                    /\ faqStore[Len(faqStore)] = req[r].body.faq
                 \/ /\ req[r].status = 500
                    /\ req[r].body.error = StoreError.message)

\* the upload of a PDF whose extraction failed has been answered 201, the
\* placeholder stored
C16_Witness ==
    \E r \in ReqIds :
        /\ req[r].kind = "upload"
        /\ req[r].status = 201
        /\ req[r].file.mimetype = MimePdf
        /\ req[r].body.faq.content = PdfPlaceholder
        /\ Head(PdfPlaceholder) = "[" /\ PdfPlaceholder[Len(PdfPlaceholder)] = "]"
        /\ faqStore[Len(faqStore)].content = PdfPlaceholder

\* the two turns of the exchange a chat handler answered
TurnsOf(q) ==
    <<[sender |-> "user", content |-> q.message.v],
      [sender |-> "ai", content |-> q.body.reply]>>

\* C17 as stated: a chat answered 200 has written the copy of the record
\* it read (its first seen turns) with its two turns appended, so that the
\* turns another exchange of the user appended in between are gone.
C17_LastWriterWins ==
    [][\A r \in ReqIds :
          (Answers(r) /\ req'[r].kind = "chat" /\ req'[r].status = 200) =>
              LET id == findOne(chatStore', req'[r].userId.v)
              IN  chatStore'[id].messages =
                      SubSeq(chatStore'[id].messages, 1, req'[r].seen)
                          \o TurnsOf(req'[r])]_vars

\* C17 as amended: the handlers share only the store and take no lock, and
\* a handler's copy of the record can be out of date when it saves; but
\* the save pushes the two turns onto the record as the store holds it, so
\* the turns appended since the handler read the record are kept and the
\* record holds the turns of both exchanges, pair by pair in the order of
\* the saves.
C17_BothExchangesKept ==
    [][\A r \in ReqIds :
          (/\ Answers(r)
           /\ req'[r].kind = "chat"
           /\ req'[r].status = 200
           /\ findOne(chatStore, req'[r].userId.v) # 0) =>
              LET id == findOne(chatStore, req'[r].userId.v)
                  before == chatStore[id].messages
              IN  /\ req'[r].seen <= Len(before)
                  /\ chatStore'[id].messages = before \o TurnsOf(req'[r])
                  /\ SubSeq(chatStore'[id].messages, req'[r].seen + 1, Len(before))
                         = SubSeq(before, req'[r].seen + 1, Len(before))]_vars

\* two exchanges of a user with a record of two turns ran at the same
\* time and were both answered 200: the record holds the turns of the one
\* saved first and, behind them, those of the one saved last
C17_Witness ==
    \E r \in ReqIds :
        /\ req[r].kind = "chat"
        /\ req[r].status = 200
        /\ req[r].seen = 2
        /\ LET messages == chatStore[findOne(chatStore, req[r].userId.v)].messages
           IN  /\ Len(messages) = 6
               /\ messages[3].sender = "user"
               /\ messages[4].sender = "ai"
               /\ SubSeq(messages, 5, 6) = TurnsOf(req[r])

\* the scores of the corpus entries
RECURSIVE ScoresOf(_, _)
ScoresOf(query, faqs) ==
    IF faqs = <<>> THEN <<>>
    ELSE <<score(query, Head(faqs))>> \o ScoresOf(query, Tail(faqs))

\* ------------------------------------------- the reference sum of a score
\* word occurs in text as a run of consecutive characters
OccursIn(word, text) ==
    \E from \in 1..(Len(text) - Len(word) + 1) :
        SubSeq(text, from, from + Len(word) - 1) = word

\* the per-word part: over the positions of the normalized query's words
\* of more than least characters, 2 for a word of the normalized title and
\* 1 for a word that is only in the normalized content
WordPart(query, faq, least) ==
    LET words == splitWhitespace(normalizeText(query))
        counted == {i \in 1..Len(words) : Len(words[i]) > least}
        inTitle == {i \in counted : OccursIn(words[i], normalizeText(faq.title))}
        inContentOnly == {i \in counted \ inTitle :
                              OccursIn(words[i], normalizeText(faq.content))}
    IN  2 * Cardinality(inTitle) + Cardinality(inContentOnly)

\* the whole-query part: the normalized query of more than 5 characters in
\* the normalized title (5) and content (2), the lowercased query in the
\* lowercased title (3) and content (1)
SubstringPart(query, faq) ==
    LET whole == normalizeText(query)
        raw == toLowerCase(query)
    IN  (IF Len(whole) > 5 /\ OccursIn(whole, normalizeText(faq.title)) THEN 5 ELSE 0)
        + (IF Len(whole) > 5 /\ OccursIn(whole, normalizeText(faq.content)) THEN 2 ELSE 0)
        + (IF OccursIn(raw, toLowerCase(faq.title)) THEN 3 ELSE 0)
        + (IF OccursIn(raw, toLowerCase(faq.content)) THEN 1 ELSE 0)

ReferenceScore(query, faq) == WordPart(query, faq, 2) + SubstringPart(query, faq)

RECURSIVE ReferenceSums(_, _)
ReferenceSums(query, faqs) ==
    IF faqs = <<>> THEN <<>>
    ELSE <<ReferenceScore(query, Head(faqs))>> \o ReferenceSums(query, Tail(faqs))

\* C18: the score of every entry is the reference sum (per word of more
\* than 2 characters, counted as often as it stands in the query, 2 for the
\* title or else 1 for the content; 5 and 2 for the normalized query of
\* more than 5 characters in title and content; 3 and 1 for the lowercased
\* query in the lowercased title and content), and the entries kept are
\* those whose sum is at least 1: every returned entry has such a sum, and
\* as many are returned as there are such entries, up to 3.
C18_ScoreIsReferenceSum ==
    scPc = "done" =>
        \A sums \in {ReferenceSums(scQuery, scCorpus)} :
            \A kept \in {{i \in 1..Len(scCorpus) : sums[i] >= 1}} :
                /\ ScoresOf(scQuery, scCorpus) = sums
                /\ \A k \in 1..Len(scResult) : \E i \in kept : scCorpus[i] = scResult[k]
                /\ Len(scResult) = Min(3, Cardinality(kept))

\* a query with the word refund twice, scored against an entry that has it
\* in its title (2 + 2), one that has it only in its content (1 + 1) and
\* one that has it nowhere (0, dropped)
C18_Witness ==
    /\ scPc = "done"
    /\ scQuery = <<"r", "e", "f", "u", "n", "d", " ", "r", "e", "f", "u", "n", "d", " ">>
    /\ scCorpus = <<RefundFaq, PolicyFaq, ShippingFaq>>
    /\ score(scQuery, RefundFaq) = 4
    /\ score(scQuery, PolicyFaq) = 2
    /\ score(scQuery, ShippingFaq) = 0
    /\ scResult = <<RefundFaq, PolicyFaq>>

\* the entries that go before entry i in the result: the kept entries of
\* a higher score, and those of the same score that stand earlier
GoBefore(i, scores) ==
    {j \in DOMAIN scores :
        /\ scores[j] >= 1
        /\ scores[j] > scores[i] \/ (scores[j] = scores[i] /\ j < i)}

\* C19: entries of equal score keep their corpus order. The k-th returned
\* entry is the kept entry that has k - 1 kept entries of a higher score,
\* or of the same score and earlier in the corpus, before it; so the
\* result is a function of the query and the corpus sequence, and of the
\* entries of one score at the cut the later ones are dropped.
C19_TiesKeepCorpusOrder ==
    scPc = "done" =>
        \A scores \in {ScoresOf(scQuery, scCorpus)} :
            \A i \in 1..Len(scCorpus) :
                scores[i] >= 1 =>
                    \A rank \in {Cardinality(GoBefore(i, scores))} :
                        IF rank < 3
                        THEN Len(scResult) > rank /\ scResult[rank + 1] = scCorpus[i]
                        ELSE Len(scResult) = 3

\* four kept entries, the third and the fourth different entries of one
\* score: the third is returned, the fourth is cut
C19_Witness ==
    /\ scPc = "done"
    /\ Len(scCorpus) = 4
    /\ \A i \in 1..4 : score(scQuery, scCorpus[i]) >= 1
    /\ score(scQuery, scCorpus[3]) = score(scQuery, scCorpus[4])
    /\ scCorpus[3] # scCorpus[4]
    /\ score(scQuery, scCorpus[2]) >= score(scQuery, scCorpus[3])
    /\ score(scQuery, scCorpus[1]) >= score(scQuery, scCorpus[2])
    /\ scResult = <<scCorpus[1], scCorpus[2], scCorpus[3]>>
    /\ \A k \in 1..3 : scResult[k] # scCorpus[4]

\* the words of the normalized query
WordsOf(query) == splitWhitespace(normalizeText(query))

\* C20 as stated: for a query none of whose normalized words is longer
\* than 3 characters the per-word part adds nothing: the score of every
\* entry is its whole-query part.
C20_ShortWordsAddNothing ==
    (scPc = "done" /\ \A i \in 1..Len(WordsOf(scQuery)) : Len(WordsOf(scQuery)[i]) <= 3) =>
        \A j \in 1..Len(scCorpus) :
            score(scQuery, scCorpus[j]) = SubstringPart(scQuery, scCorpus[j])

\* C20 as amended: the bound is 2 characters. For a query none of whose
\* normalized words is longer than 2 characters the per-word part adds
\* nothing and the score of every entry is its whole-query part; a word of
\* 3 characters is counted.
C20_TwoCharacterWordsAddNothing ==
    scPc = "done" =>
        /\ (\A i \in 1..Len(WordsOf(scQuery)) : Len(WordsOf(scQuery)[i]) <= 2) =>
               \A j \in 1..Len(scCorpus) :
                   score(scQuery, scCorpus[j]) = SubstringPart(scQuery, scCorpus[j])
        /\ scQuery = <<"o", "u", "r", " ">> =>
               \A j \in 1..Len(scCorpus) :
                   scCorpus[j] = PolicyFaq =>
                       score(scQuery, PolicyFaq) = SubstringPart(scQuery, PolicyFaq) + 1

\* the query "30 " against the refund entry scores 1, for the lowercased
\* query in the content, and the word 30 adds nothing though the content
\* has it
C20_Witness ==
    /\ scPc = "done"
    /\ scQuery = <<"3", "0", " ">>
    /\ WordsOf(scQuery) = <<<<"3", "0">>>>
    /\ scCorpus = <<RefundFaq>>
    /\ OccursIn(<<"3", "0">>, normalizeText(RefundFaq.content))
    /\ score(scQuery, RefundFaq) = 1
    /\ scResult = <<RefundFaq>>

\* ------------------------------------------------- the FAQ store's frame
\* C21: the FAQ store is append-only. A step changes it only when a handler
\* of POST /faqs or POST /upload-file-faq answers 201 in that step, and
\* then by exactly one entry behind the entries it held, which keep their
\* place, title and content; a step of a chat handler, and a step in which
\* an upload is answered 400 or 500, leaves it as it was.
C21_FaqStoreAppendOnly ==
    [][/\ faqStore' # faqStore =>
              /\ Len(faqStore') = Len(faqStore) + 1
              /\ SubSeq(faqStore', 1, Len(faqStore)) = faqStore
              /\ \E r \in ReqIds :
                     /\ Answers(r)
                     /\ req'[r].kind \in {"faq", "upload"}
                     /\ req'[r].status = 201
                     /\ faqStore'[Len(faqStore')] = req'[r].body.faq
       /\ \A r \in ReqIds :
              Answers(r) =>
                  IF req'[r].kind \in {"faq", "upload"} /\ req'[r].status = 201
                  THEN Len(faqStore') = Len(faqStore) + 1
                  ELSE faqStore' = faqStore]_vars

\* two uploads have been stored and a third has just been answered 500:
\* the store holds the two entries
C21_Witness ==
    /\ Len(faqStore) = 2
    /\ started = 3
    /\ \E r \in ReqIds :
           /\ Ended(req[r])
           /\ req[r].kind \in {"faq", "upload"}
           /\ req[r].status = 500

\* ------------------------------------------- the shape of stored histories
\* the turns of a history go user, ai, user, ai, ... and end with an ai turn
UserAiPairs(messages) ==
    /\ Len(messages) % 2 = 0
    /\ \A k \in 1..Len(messages) :
           messages[k].sender = IF k % 2 = 1 THEN "user" ELSE "ai"

\* C22: every conversation record holds an even number of turns, at least
\* 2, that alternate user, ai, ... and end with an ai turn. So the trimming
\* of a record a handler may read never takes the branch for a last turn of
\* the user: what it keeps is the last 5 turns (all of them when there are
\* fewer), at most 5, and the payload built on it has at most 7 messages;
\* the payload of every handler that has called upstream has at most 7.
C22_RecordsAlternate ==
    /\ \A i \in 1..Len(chatStore) :
           \A messages \in {chatStore[i].messages} :
               /\ Len(messages) >= 2
               /\ UserAiPairs(messages)
               /\ messages[Len(messages)].sender # "user"
               /\ trimHistory(messages) = sliceLast(messages, 5)
               /\ Len(trimHistory(messages)) <= 5
               /\ Len(payloadContents(<<>>, toChatHistory(trimHistory(messages)),
                                      MessageText.v)) <= 7
    /\ \A r \in ReqIds :
           req[r].kind = "chat" =>
               /\ Len(req[r].payload) <= 7
               /\ req[r].pc \in {"upstream", "save"} =>
                      Len(req[r].payload) =
                          2 + (IF req[r].seen > 5 THEN 5 ELSE req[r].seen)

\* a record of three exchanges, 6 turns: the trimming of it cuts the first
\* turn off and keeps 5, which begin with an ai turn
C22_Witness ==
    \E i \in 1..Len(chatStore) :
        /\ Len(chatStore[i].messages) = 6
        /\ Len(trimHistory(chatStore[i].messages)) = 5
        /\ trimHistory(chatStore[i].messages)[1].sender = "ai"

\* ------------------------------------- malformed upstream responses
\* the chat handler q has returned after an upstream call that resolved
\* with a response without a text in the first part of its first
\* candidate: the extraction threw on it, or the reply it left for the save
\* is the fixed string or no string at all
GotMalformed(q) ==
    /\ q.kind = "chat"
    /\ Ended(q)
    /\ \/ q.failure = "extract"
       \/ q.storeCalls = 3 /\ q.reply.t # "string"
       \/ q.storeCalls = 3 /\ q.reply = Str(ReplyUnclear)

\* C23: an upstream response that is malformed or empty is treated as a
\* successful exchange. A chat handler that returned after such a response
\* was answered 200 with the fixed "empty or unclear response" string as
\* reply, unless the store did not take the write of its two valid turns;
\* and a user turn and an ai turn with the fixed string are then the last
\* two turns of a record.
C23_MalformedAnswered200 ==
    \A r \in ReqIds :
        GotMalformed(req[r]) =>
            \/ /\ req[r].status = 200
               /\ req[r].body.reply = ReplyUnclear
               /\ \E i \in 1..Len(chatStore) :
                      \E n \in {Len(chatStore[i].messages)} :
                          /\ chatStore[i].userId = req[r].userId.v
                          /\ chatStore[i].messages[n - 1] =
                                 [sender |-> "user", content |-> req[r].message.v]
                          /\ chatStore[i].messages[n] =
                                 [sender |-> "ai", content |-> ReplyUnclear]
            \/ /\ req[r].status = 500
               /\ req[r].failure = "save"
               /\ req[r].reply = Str(ReplyUnclear)

\* ------------------------------------------------------- the chat UI
\* the messages of a sender in the list
MessagesOf(sender) == SelectSeq(cbMessages, LAMBDA m : m.sender = sender)

C25_TypingTracksPending == cbIsTyping <=> Len(cbPending) > 0

\* ------------------------------------------------------ the admin form
\* C26: in the admin form a selected file and a content that is not empty
\* are never both present. A call of upload with a blank title, or with a
\* blank content and no file, sends no request and shows the modal; any
\* other call sends one request, to the file endpoint with the file when a
\* file is selected and to the text endpoint with the content otherwise,
\* and no call changes title, content or file. When a request settles,
\* title, content and file change only if it resolved with a message that
\* contains "successfully", and then, for a request of the mounted form,
\* all three are cleared.
C26_FormExclusiveAndCleared ==
    /\ [](truthy(auFile) => auContent = <<>>)
    /\ [][/\ auCalls' # auCalls =>
                 /\ UNCHANGED <<auTitle, auContent, auFile>>
                 /\ IF trim(auTitle) = <<>>
                       \/ (trim(auContent) = <<>> /\ ~truthy(auFile))
                    THEN auPending' = auPending /\ auShowModal'
                    ELSE /\ Len(auPending') = Len(auPending) + 1
                         /\ SubSeq(auPending', 1, Len(auPending)) = auPending
                         /\ ~auShowModal'
                         /\ \A sent \in {auPending'[Len(auPending')]} :
                                /\ sent.title = auTitle
                                /\ IF truthy(auFile)
                                   THEN /\ sent.endpoint = EndpointFile
                                        /\ sent.file = auFile
                                   ELSE /\ sent.endpoint = EndpointFaqs
                                        /\ sent.content = Str(auContent)
          /\ Len(auPending') < Len(auPending) =>
                 \A success \in {/\ auSettled'[1].ok
                                 /\ truthy(get(auSettled'[1].data, "message"))
                                 /\ includes(get(auSettled'[1].data, "message").v,
                                             <<"s", "u", "c", "c", "e", "s", "s", "f", "u", "l", "l", "y">>)} :
                     /\ ~success => UNCHANGED <<auTitle, auContent, auFile>>
                     /\ success =>
                            auTitle' = <<>> /\ auContent' = <<>> /\ auFile' = Null]_vars

\* a file was uploaded, then the title cleared and upload called again:
\* the request went to the file endpoint, the second call sent nothing and
\* shows the modal; the file is selected and the content is empty
C26_Witness ==
    /\ auCalls = 2
    /\ Len(auPending) = 1
    /\ auPending[1].endpoint = EndpointFile
    /\ auPending[1].file = PdfFile
    /\ auFile = PdfFile
    /\ auContent = <<>>
    /\ trim(auTitle) = <<>>
    /\ auShowModal
    /\ auModalMessage = MsgTitleEmpty
====
